---------------------------- MODULE Spec2Model ----------------------------
(***************************************************************************)
(* kerja: the Markdown logbook storage engine (package logbook: Parser,    *)
(* Reader, Writer) and the month-file manager (package files).             *)
(*                                                                         *)
(* A string is a sequence of one-character strings.  The content of a file *)
(* is held as strings.Split(content, "\n"): the non-empty sequence of its  *)
(* newline-free segments, so that content = Join(segments, "\n").  The     *)
(* empty sequence stands for a file that does not exist.                   *)
(***************************************************************************)
EXTENDS Integers, Sequences, FiniteSets, TLC

VARIABLES
    disk,   \* the content of the month file 2025-11.md
    last,   \* the last Writer call that returned: its inputs, its result and
            \* the content of the month file when it was made
    w,      \* per process: the Writer call in progress, step by step
    fmt,    \* an entry on its way through formatEntry and parseEntryLine
    rd,     \* the Reader call or the Parser at work, and what it returned
    ui      \* the TUI: its Model, the commands running and the messages
            \* on their way to Update

vars == <<disk, last, w, fmt, rd, ui>>

\* ------------------------------------------------------------------------
\* Go string helpers used by the parser and the writer
\* ------------------------------------------------------------------------

\* unicode.IsSpace over the characters of the model
IsSpace(c) == c \in {" ", "\t", "\r"}

RECURSIVE TrimLeftSpace(_)
TrimLeftSpace(s) ==
    IF s # <<>> /\ IsSpace(Head(s)) THEN TrimLeftSpace(Tail(s)) ELSE s

RECURSIVE TrimRightSpace(_)
TrimRightSpace(s) ==
    IF s # <<>> /\ IsSpace(s[Len(s)])
    THEN TrimRightSpace(SubSeq(s, 1, Len(s) - 1))
    ELSE s

\* strings.TrimSpace
TrimSpace(s) == TrimRightSpace(TrimLeftSpace(s))

\* strings.HasPrefix
HasPrefix(s, p) == Len(s) >= Len(p) /\ SubSeq(s, 1, Len(p)) = p

\* strings.Index: 0-based position of the first occurrence of sub, or -1
Index(s, sub) ==
    LET hits == {i \in 0..(Len(s) - Len(sub)) :
                    SubSeq(s, i + 1, i + Len(sub)) = sub}
    IN  IF hits = {} THEN -1
        ELSE CHOOSE i \in hits : \A j \in hits : i <= j

\* Position of the first space of t, or Len(t) + 1
FirstSpace(t) ==
    LET stops == {i \in 1..Len(t) : IsSpace(t[i])}
    IN  IF stops = {} THEN Len(t) + 1
        ELSE CHOOSE i \in stops : \A j \in stops : i <= j

\* strings.Fields: the maximal runs of non-space characters
RECURSIVE Fields(_)
fieldsCut(t, cut) == <<SubSeq(t, 1, cut - 1)>> \o Fields(SubSeq(t, cut, Len(t)))

fieldsFrom(t) == IF t = <<>> THEN <<>> ELSE fieldsCut(t, FirstSpace(t))

Fields(s) == fieldsFrom(TrimLeftSpace(s))

\* strings.TrimLeft(field, "#")
RECURSIVE TrimLeftHash(_)
TrimLeftHash(s) ==
    IF s # <<>> /\ Head(s) = "#" THEN TrimLeftHash(Tail(s)) ELSE s

DigitChars == <<"0", "1", "2", "3", "4", "5", "6", "7", "8", "9">>

IsDigit(c) == \E i \in 1..10 : DigitChars[i] = c

DigitVal(c) == (CHOOSE i \in 1..10 : DigitChars[i] = c) - 1

\* %02d
TwoDigits(n) == <<DigitChars[((n \div 10) % 10) + 1], DigitChars[(n % 10) + 1]>>

\* %04d
FourDigits(n) == TwoDigits(n \div 100) \o TwoDigits(n % 100)

AllDigits(s) == \A i \in 1..Len(s) : IsDigit(s[i])

TwoDigitVal(s) == 10 * DigitVal(s[1]) + DigitVal(s[2])

\* ------------------------------------------------------------------------
\* Calendar dates (time.Time restricted to year, month, day)
\* ------------------------------------------------------------------------

IsLeap(y) == (y % 4 = 0) /\ ((y % 100 # 0) \/ (y % 400 = 0))

DaysIn(m, y) ==
    IF m = 2 THEN (IF IsLeap(y) THEN 29 ELSE 28)
    ELSE IF m \in {4, 6, 9, 11} THEN 30 ELSE 31

Date(y, m, d) == [year |-> y, month |-> m, day |-> d]

NoDate == Date(0, 0, 0)

\* The range checks of time.Parse: month 1..12, day within the month
checkedDate(y, m, d) ==
    IF m \in 1..12 /\ d >= 1 /\ d <= DaysIn(m, y)
    THEN [ok |-> TRUE, date |-> Date(y, m, d)]
    ELSE [ok |-> FALSE, date |-> NoDate]

\* time.Parse("2006-01-02", s)
ParseDate(s) ==
    IF /\ Len(s) = 10
       /\ AllDigits(SubSeq(s, 1, 4)) /\ s[5] = "-"
       /\ AllDigits(SubSeq(s, 6, 7)) /\ s[8] = "-"
       /\ AllDigits(SubSeq(s, 9, 10))
    THEN checkedDate(100 * TwoDigitVal(SubSeq(s, 1, 2)) + TwoDigitVal(SubSeq(s, 3, 4)),
                     TwoDigitVal(SubSeq(s, 6, 7)),
                     TwoDigitVal(SubSeq(s, 9, 10)))
    ELSE [ok |-> FALSE, date |-> NoDate]

\* time.Time.YearDay
RECURSIVE DaysBefore(_, _)
DaysBefore(m, y) == IF m <= 1 THEN 0 ELSE DaysIn(m - 1, y) + DaysBefore(m - 1, y)

YearDay(date) == DaysBefore(date.month, date.year) + date.day

\* sameDay: same year and same day of the year
sameDay(a, b) == a.year = b.year /\ YearDay(a) = YearDay(b)

\* A time.Time: a date and the minute of the day
Time(date, min) == [date |-> date, min |-> min]

NoTime == Time(NoDate, 0)

\* The minutes from the start of year 0 of the model's calendar, in which
\* every year has room for 366 days: later times have larger values
Instant(t) == ((t.date.year * 366 + YearDay(t.date)) * 1440) + t.min

\* time.Time.Before, time.Time.After
Before(a, b) == Instant(a) < Instant(b)

After(a, b) == Instant(a) > Instant(b)

\* AddDate(0, 0, 1): the same time of day on the next day
NextDay(date) ==
    IF date.day < DaysIn(date.month, date.year)
    THEN Date(date.year, date.month, date.day + 1)
    ELSE IF date.month < 12 THEN Date(date.year, date.month + 1, 1)
    ELSE Date(date.year + 1, 1, 1)

AddDay(t) == Time(NextDay(t.date), t.min)

\* ------------------------------------------------------------------------
\* Entries
\* ------------------------------------------------------------------------

StatusTodo == 0
StatusDone == 1

\* Entry{Status, Time, Text, Tags}; Time is a date with hour and minute
Entry(st, date, h, mi, text, tags) ==
    [Status |-> st, Date |-> date, Hour |-> h, Min |-> mi,
     Text |-> text, Tags |-> tags]

NoEntry == Entry(StatusTodo, NoDate, 0, 0, <<>>, <<>>)

\* parseTags: the fields that start with '#' and are longer than one
\* character, without their leading '#'s; a field of '#'s only is dropped
tagOfField(field, tag) ==
    IF HasPrefix(field, <<"#">>) /\ Len(field) > 1 /\ tag # <<>>
    THEN <<tag>> ELSE <<>>

RECURSIVE parseTagFields(_)
parseTagFields(fields) ==
    IF fields = <<>> THEN <<>>
    ELSE tagOfField(Head(fields), TrimLeftHash(Head(fields)))
            \o parseTagFields(Tail(fields))

parseTags(segment) == parseTagFields(Fields(segment))

\* extractTextAndTags once the rest is trimmed and the first " #" is found
\* at the 0-based tagStart (-1: none)
splitTextAndTags(rest, tagStart) ==
    IF rest = <<>> THEN [text |-> <<>>, tags |-> <<>>]
    ELSE IF tagStart >= 0
    THEN [text |-> TrimSpace(SubSeq(rest, 1, tagStart)),
          tags |-> parseTags(SubSeq(rest, tagStart + 2, Len(rest)))]
    ELSE IF HasPrefix(rest, <<"#">>)
    THEN [text |-> <<>>, tags |-> parseTags(rest)]
    ELSE [text |-> TrimSpace(rest), tags |-> <<>>]

trimmedTextAndTags(rest) == splitTextAndTags(rest, Index(rest, <<" ", "#">>))

\* extractTextAndTags
extractTextAndTags(rest) == trimmedTextAndTags(TrimSpace(rest))

\* entryPattern: ^- \[( |x)\] \[(\d{2}:\d{2})\] (.*)$
entryPattern(line) ==
    /\ Len(line) >= 14
    /\ SubSeq(line, 1, 3) = <<"-", " ", "[">>
    /\ line[4] \in {" ", "x"}
    /\ SubSeq(line, 5, 7) = <<"]", " ", "[">>
    /\ IsDigit(line[8]) /\ IsDigit(line[9])
    /\ line[10] = ":"
    /\ IsDigit(line[11]) /\ IsDigit(line[12])
    /\ SubSeq(line, 13, 14) = <<"]", " ">>

\* parseEntryLine after the pattern matched: time.Parse("15:04") rejects
\* an hour above 23 and a minute above 59
parsedEntry(status, date, hour, min, tt) ==
    IF hour >= 24 \/ min >= 60
    THEN [ok |-> FALSE, entry |-> NoEntry]
    ELSE [ok |-> TRUE, entry |-> Entry(status, date, hour, min, tt.text, tt.tags)]

\* parseEntryLine(line, date): [ok, entry]
parseEntryLine(line, date) ==
    IF ~entryPattern(line) THEN [ok |-> FALSE, entry |-> NoEntry]
    ELSE parsedEntry(IF line[4] = "x" THEN StatusDone ELSE StatusTodo, date,
                     TwoDigitVal(SubSeq(line, 8, 9)),
                     TwoDigitVal(SubSeq(line, 11, 12)),
                     extractTextAndTags(SubSeq(line, 15, Len(line))))

\* parseSectionHeading(line): [ok, date]
parseSectionHeading(line) ==
    IF ~HasPrefix(line, <<"#", "#", " ">>) THEN [ok |-> FALSE, date |-> NoDate]
    ELSE ParseDate(TrimSpace(SubSeq(line, 4, Len(line))))

\* dateHeading: "## %04d-%02d-%02d"
dateHeading(date) ==
    <<"#", "#", " ">> \o FourDigits(date.year) \o <<"-">>
        \o TwoDigits(date.month) \o <<"-">> \o TwoDigits(date.day)

RECURSIVE formatTags(_)
formatTags(tags) ==
    IF tags = <<>> THEN <<>>
    ELSE <<" ", "#">> \o Head(tags) \o formatTags(Tail(tags))

\* formatEntry: "- [c] [HH:MM]", then " text" when text is not empty, then
\* " #tag" for every tag
formatEntry(entry) ==
    <<"-", " ", "[", (IF entry.Status = StatusDone THEN "x" ELSE " "), "]",
      " ", "[">> \o TwoDigits(entry.Hour) \o <<":">> \o TwoDigits(entry.Min)
        \o <<"]">>
        \o (IF entry.Text # <<>> THEN <<" ">> \o entry.Text ELSE <<>>)
        \o formatTags(entry.Tags)

\* normalizeEntryTime: the entry's hour and minute on the target date
normalizeEntryTime(date, entry) == [entry EXCEPT !.Date = date]

\* ------------------------------------------------------------------------
\* Month files (package files)
\* ------------------------------------------------------------------------

MonthNames ==
    <<<<"J", "a", "n", "u", "a", "r", "y">>,
      <<"F", "e", "b", "r", "u", "a", "r", "y">>,
      <<"M", "a", "r", "c", "h">>,
      <<"A", "p", "r", "i", "l">>,
      <<"M", "a", "y">>,
      <<"J", "u", "n", "e">>,
      <<"J", "u", "l", "y">>,
      <<"A", "u", "g", "u", "s", "t">>,
      <<"S", "e", "p", "t", "e", "m", "b", "e", "r">>,
      <<"O", "c", "t", "o", "b", "e", "r">>,
      <<"N", "o", "v", "e", "m", "b", "e", "r">>,
      <<"D", "e", "c", "e", "m", "b", "e", "r">>>>

\* A file that does not exist
Missing == <<>>

\* The empty string as file content: one empty segment
EmptyContent == <<<<>>>>

\* monthHeader: "# %s %04d\n\n"
monthHeader(date) ==
    << <<"#", " ">> \o MonthNames[date.month] \o <<" ">> \o FourDigits(date.year),
       <<>>, <<>> >>

\* An EnsureMonthFile that opens the file with O_TRUNC and writes the header
EnsureMonthFileTruncates(content, date) == monthHeader(date)

\* An EnsureMonthFile that puts the header before the text of a file that
\* does not begin with it
EnsureMonthFileHeads(content, date) ==
    IF content = Missing \/ content = EmptyContent THEN monthHeader(date)
    ELSE IF content[1] = monthHeader(date)[1] THEN content
    ELSE <<monthHeader(date)[1], <<>>>> \o content

\* EnsureMonthFile: the content of the month file after the call; a file
\* that is missing or has size 0 receives the month header
EnsureMonthFile(content, date) ==
    IF content = Missing \/ content = EmptyContent
    THEN monthHeader(date)
    ELSE content

\* ------------------------------------------------------------------------
\* Parser
\* ------------------------------------------------------------------------

\* bufio.ScanLines dropCR
dropCR(s) ==
    IF s # <<>> /\ s[Len(s)] = "\r" THEN SubSeq(s, 1, Len(s) - 1) ELSE s

\* dropCR on every segment
RECURSIVE dropCRs(_)
dropCRs(segs) ==
    IF segs = <<>> THEN <<>> ELSE <<dropCR(Head(segs))>> \o dropCRs(Tail(segs))

\* The tokens bufio.Scanner yields for the content: one per line without
\* its line end; no token for an empty remainder at end of input
ScanLines(content) ==
    IF content # <<>> /\ content[Len(content)] = <<>>
    THEN dropCRs(SubSeq(content, 1, Len(content) - 1))
    ELSE dropCRs(content)

\* bufio.MaxScanTokenSize: the Scanner gives up on a line that does not fit
\* a buffer of this many bytes
MaxScanTokenSize == 65536

\* One element of a line that stands for MaxScanTokenSize letters in a row
LongRun == "a*65536"

\* The length of a line in bytes
RECURSIVE ByteLen(_)
ByteLen(line) ==
    IF line = <<>> THEN 0
    ELSE (IF Head(line) = LongRun THEN MaxScanTokenSize ELSE 1) + ByteLen(Tail(line))

\* The tokens Scan yields before it returns false: all of them, or those
\* before the first line that is too long for the buffer
RECURSIVE scanned(_)
scanned(toks) ==
    IF toks = <<>> \/ ByteLen(Head(toks)) >= MaxScanTokenSize THEN <<>>
    ELSE <<Head(toks)>> \o scanned(Tail(toks))

\* scanner.Err() once Scan has returned false: bufio.ErrTooLong or nil
scannerErr(toks) == \E i \in 1..Len(toks) : ByteLen(toks[i]) >= MaxScanTokenSize

NoPending == [has |-> FALSE, date |-> NoDate]

DateSection(date, entries) == [Date |-> date, Entries |-> entries]

NoSection == DateSection(NoDate, <<>>)

\* NewParser(r) over the tokens of r; pos counts the tokens consumed, err
\* is the error the scanner holds when its tokens are used up
NewParser(hasReader, content) ==
    [r |-> hasReader,
     toks |-> IF hasReader THEN scanned(ScanLines(content)) ELSE <<>>,
     err |-> hasReader /\ scannerErr(ScanLines(content)),
     pos |-> 0, pending |-> NoPending, initDone |-> FALSE]

\* consumeUntilSection: skips to the next dated heading
RECURSIVE consumeUntilSection(_, _)
consumeStep(toks, pos, h) ==
    IF h.ok THEN [found |-> TRUE, date |-> h.date, pos |-> pos + 1]
    ELSE consumeUntilSection(toks, pos + 1)

consumeUntilSection(toks, pos) ==
    IF pos >= Len(toks) THEN [found |-> FALSE, date |-> NoDate, pos |-> pos]
    ELSE consumeStep(toks, pos, parseSectionHeading(TrimSpace(toks[pos + 1])))

\* The scan loop of NextSection: collects the entry lines of the section up
\* to the next dated heading, which becomes the pending section
RECURSIVE scanSection(_, _, _)
\* One pass of the loop on the trimmed line: h is parseSectionHeading(line)
scanLine(toks, pos, section, line, h) ==
    IF h.ok
    THEN [section |-> section, pos |-> pos + 1,
          pending |-> [has |-> TRUE, date |-> h.date]]
    ELSE IF Len(line) = 0 \/ HasPrefix(line, <<"#">>)
    THEN scanSection(toks, pos + 1, section)
    ELSE scanSection(toks, pos + 1,
            DateSection(section.Date,
                section.Entries \o
                    (IF parseEntryLine(line, section.Date).ok
                     THEN <<parseEntryLine(line, section.Date).entry>>
                     ELSE <<>>)))

scanTrimmed(toks, pos, section, line) ==
    scanLine(toks, pos, section, line, parseSectionHeading(line))

scanSection(toks, pos, section) ==
    IF pos >= Len(toks)
    THEN [section |-> section, pos |-> pos, pending |-> NoPending]
    ELSE scanTrimmed(toks, pos, section, TrimSpace(toks[pos + 1]))

\* NextSection with no section pending: c is what consumeUntilSection found
nextFrom(p, c) ==
    IF ~c.found
    THEN [eof |-> TRUE, section |-> NoSection,
          scan |-> [section |-> NoSection, pos |-> c.pos, pending |-> NoPending]]
    ELSE [eof |-> FALSE, section |-> NoSection,
          scan |-> scanSection(p.toks, c.pos, DateSection(c.date, <<>>))]

\* The section NextSection starts from, and the scan of its lines
nextScan(p) ==
    IF p.pending.has
    THEN [eof |-> FALSE, section |-> NoSection,
          scan |-> scanSection(p.toks, p.pos, DateSection(p.pending.date, <<>>))]
    ELSE nextFrom(p, consumeUntilSection(p.toks, p.pos))

\* NextSection forgetting the heading at which its scan stopped
nextResultDropsPending(p, n) ==
    [err |-> p.err /\ ~n.scan.pending.has,
     eof |-> n.eof /\ ~p.err,
     section |-> IF n.eof \/ (p.err /\ ~n.scan.pending.has) THEN NoSection
                 ELSE n.scan.section,
     parser |-> [p EXCEPT !.pos = n.scan.pos, !.pending = NoPending,
                          !.initDone = TRUE]]

\* The return of NextSection: when Scan returned false (no heading is
\* pending) and the scanner holds an error, that error; else end of input
\* or the section
nextResult(p, n) ==
    [err |-> p.err /\ ~n.scan.pending.has,
     eof |-> n.eof /\ ~p.err,
     section |-> IF n.eof \/ (p.err /\ ~n.scan.pending.has) THEN NoSection
                 ELSE n.scan.section,
     parser |-> [p EXCEPT !.pos = n.scan.pos, !.pending = n.scan.pending,
                          !.initDone = TRUE]]

\* Parser.NextSection: [err, eof, section, parser]; err is an error other
\* than io.EOF
NextSection(p) ==
    IF ~p.r
    THEN [err |-> FALSE, eof |-> TRUE, section |-> NoSection, parser |-> p]
    ELSE nextResult(p, nextScan(p))

\* ------------------------------------------------------------------------
\* Reader
\* ------------------------------------------------------------------------

\* Reader.Section returning the first section of the file, whatever its date
sectionStepAnyDate(n, date) ==
    IF n.err THEN [found |-> FALSE, err |-> TRUE, section |-> NoSection]
    ELSE IF n.eof THEN [found |-> FALSE, err |-> FALSE, section |-> NoSection]
    ELSE [found |-> TRUE, err |-> FALSE, section |-> n.section]

\* The loop of Reader.Section: the first section of the date
RECURSIVE sectionLoop(_, _)
sectionStep(n, date) ==
    IF n.err THEN [found |-> FALSE, err |-> TRUE, section |-> NoSection]
    ELSE IF n.eof THEN [found |-> FALSE, err |-> FALSE, section |-> NoSection]
    ELSE IF sameDay(n.section.Date, date)
    THEN [found |-> TRUE, err |-> FALSE, section |-> n.section]
    ELSE sectionLoop(n.parser, date)

sectionLoop(p, date) == sectionStep(NextSection(p), date)

\* Reader.Section on the content of the date's month file: found = FALSE is
\* ErrSectionNotFound, or with err the error of the scanner
Section(content, date) ==
    sectionLoop(NewParser(TRUE, EnsureMonthFile(content, date)), date)

\* ------------------------------------------------------------------------
\* Writer: pure steps
\* ------------------------------------------------------------------------

\* splitLines: "\r\n" becomes "\n", the content is split at "\n", and the
\* empty last element that a final newline leaves is removed
splitLines(content) ==
    IF content = <<>> THEN <<>>
    ELSE IF content[Len(content)] = <<>>
    THEN dropCRs(SubSeq(content, 1, Len(content) - 1))
    ELSE Append(dropCRs(SubSeq(content, 1, Len(content) - 1)), content[Len(content)])

\* needsSeparation looking at the first line of the file
needsSeparationFirstLine(lines) ==
    IF Len(lines) = 0 THEN FALSE
    ELSE TrimSpace(lines[1]) # <<>>

\* needsSeparation
needsSeparation(lines) ==
    IF Len(lines) = 0 THEN FALSE ELSE TrimSpace(lines[Len(lines)]) # <<>>

\* insertLine: index is 0-based
insertLine(lines, index, line) ==
    IF index < 0 \/ index > Len(lines) THEN Append(lines, line)
    ELSE SubSeq(lines, 1, index) \o <<line>> \o SubSeq(lines, index + 1, Len(lines))

\* The content writeLines gives the temporary file: the lines joined with
\* "\n", and a final "\n" added unless the joined text already ends in one
writeLinesContent(lines) ==
    LET joined == IF lines = <<>> THEN EmptyContent ELSE lines
    IN  IF Len(joined) >= 2 /\ joined[Len(joined)] = <<>>
        THEN joined
        ELSE Append(joined, <<>>)

NoState ==
    [found |-> FALSE, section |-> NoSection, start |-> -1, end |-> -1,
     entryIndexes |-> <<>>]

\* The smallest element of a set of numbers, or none when it is empty
MinOr(S, none) == IF S = {} THEN none ELSE CHOOSE i \in S : \A j \in S : i <= j

\* The entry lines of lines[from..to-1] (0-based), as <<index, entry>> pairs
RECURSIVE sectionEntries(_, _, _, _)
entryAt(from, e) == IF e.ok THEN << <<from, e.entry>> >> ELSE <<>>

sectionEntries(lines, from, to, date) ==
    IF from >= to THEN <<>>
    ELSE entryAt(from, parseEntryLine(TrimSpace(lines[from + 1]), date))
            \o sectionEntries(lines, from + 1, to, date)

\* The first loop of loadSection: the 0-based index of the first line that,
\* trimmed, equals the heading of the date; -1 when there is none
sectionStart(lines, heading) ==
    MinOr({i \in 0..(Len(lines) - 1) : TrimSpace(lines[i + 1]) = heading}, -1)

\* The second loop of loadSection: the index of the first line after start
\* that, trimmed, begins with "## "; the number of lines when there is none
sectionEnd(lines, start) ==
    MinOr({i \in (start + 1)..(Len(lines) - 1) :
              HasPrefix(TrimSpace(lines[i + 1]), <<"#", "#", " ">>)}, Len(lines))

\* The line indexes and the entries of <<index, entry>> pairs
RECURSIVE indexesOf(_)
indexesOf(found) ==
    IF found = <<>> THEN <<>> ELSE <<Head(found)[1]>> \o indexesOf(Tail(found))

RECURSIVE entriesOf(_)
entriesOf(found) ==
    IF found = <<>> THEN <<>> ELSE <<Head(found)[2]>> \o entriesOf(Tail(found))

sectionStateOf(date, start, end, found) ==
    [found |-> TRUE,
     section |-> DateSection(date, entriesOf(found)),
     start |-> start, end |-> end,
     entryIndexes |-> indexesOf(found)]

sectionSpan(lines, date, start, end) ==
    sectionStateOf(date, start, end, sectionEntries(lines, start + 1, end, date))

sectionFrom(lines, date, start) ==
    IF start = -1 THEN NoState
    ELSE sectionSpan(lines, date, start, sectionEnd(lines, start))

\* loadSection after the file is read: the sectionState of the date, with
\* 0-based line indexes; found = FALSE is the nil state
loadSection(lines, date) ==
    sectionFrom(lines, date, sectionStart(lines, dateHeading(date)))

\* The status switch of Toggle
toggleStatus(status) ==
    CASE status = StatusTodo -> StatusDone
      [] status = StatusDone -> StatusTodo
      [] OTHER -> StatusTodo

\* What each operation does between loadSection and writeLines:
\* [err, lines (to be written), ret (the entry returned)]
Plan(err, lines, ret) == [err |-> err, lines |-> lines, ret |-> ret]

\* Append after loadSection; line is formatEntry of the normalized entry
appendPlan(lines, date, state, line) ==
    IF ~state.found
    THEN Plan("ok",
              (IF needsSeparation(lines) THEN Append(lines, <<>>) ELSE lines)
                  \o <<dateHeading(date), line>>,
              NoEntry)
    ELSE Plan("ok", insertLine(lines, state.end, line), NoEntry)

\* The entry of Toggle with its status flipped
toggled(entry) == [entry EXCEPT !.Status = toggleStatus(entry.Status)]

\* Toggle that looks at the index before it looks for the section
togglePlanIndexFirst(lines, state, index) ==
    IF index < 1 \/ index > Len(state.entryIndexes)
    THEN Plan("ErrInvalidIndex", lines, NoEntry)
    ELSE IF ~state.found THEN Plan("ErrSectionNotFound", lines, NoEntry)
    ELSE Plan("ok",
              [lines EXCEPT ![state.entryIndexes[index] + 1] =
                                formatEntry(toggled(state.section.Entries[index]))],
              toggled(state.section.Entries[index]))

\* Toggle after loadSection
togglePlan(lines, state, index) ==
    IF ~state.found THEN Plan("ErrSectionNotFound", lines, NoEntry)
    ELSE IF index < 1 \/ index > Len(state.entryIndexes)
    THEN Plan("ErrInvalidIndex", lines, NoEntry)
    ELSE Plan("ok",
              [lines EXCEPT ![state.entryIndexes[index] + 1] =
                                formatEntry(toggled(state.section.Entries[index]))],
              toggled(state.section.Entries[index]))

\* Edit after loadSection; line is formatEntry of the normalized entry
editPlan(lines, state, index, line) ==
    IF ~state.found THEN Plan("ErrSectionNotFound", lines, NoEntry)
    ELSE IF index < 1 \/ index > Len(state.entryIndexes)
    THEN Plan("ErrInvalidIndex", lines, NoEntry)
    ELSE Plan("ok", [lines EXCEPT ![state.entryIndexes[index] + 1] = line], NoEntry)

\* Delete that removes the heading together with the last entry of a section
deletePlanDropsHeading(lines, state, index) ==
    IF ~state.found THEN Plan("ErrSectionNotFound", lines, NoEntry)
    ELSE IF index < 1 \/ index > Len(state.entryIndexes)
    THEN Plan("ErrInvalidIndex", lines, NoEntry)
    ELSE IF Len(state.entryIndexes) = 1
    THEN Plan("ok",
              SubSeq(lines, 1, state.start)
                  \o SubSeq(lines, state.entryIndexes[index] + 2, Len(lines)),
              state.section.Entries[index])
    ELSE Plan("ok",
              SubSeq(lines, 1, state.entryIndexes[index])
                  \o SubSeq(lines, state.entryIndexes[index] + 2, Len(lines)),
              state.section.Entries[index])

\* Delete after loadSection
deletePlan(lines, state, index) ==
    IF ~state.found THEN Plan("ErrSectionNotFound", lines, NoEntry)
    ELSE IF index < 1 \/ index > Len(state.entryIndexes)
    THEN Plan("ErrInvalidIndex", lines, NoEntry)
    ELSE Plan("ok",
              SubSeq(lines, 1, state.entryIndexes[index])
                  \o SubSeq(lines, state.entryIndexes[index] + 2, Len(lines)),
              state.section.Entries[index])

\* ------------------------------------------------------------------------
\* Bounds and inputs
\* ------------------------------------------------------------------------

\* Segments of the month file at the start
MaxInitSegs == 4

\* Largest 1-based index the callers pass
MaxIndex == 2

D1 == Date(2025, 11, 4)
D2 == Date(2025, 11, 5)

\* The date the callers pass; the month file has sections of D1 and D2
Dates == {D1}

LineBlank == <<>>
LineH1 == <<"#", "#", " ", "2", "0", "2", "5", "-", "1", "1", "-", "0", "4">>
LineH2 == <<"#", "#", " ", "2", "0", "2", "5", "-", "1", "1", "-", "0", "5">>
LineEntry ==
    <<"-", " ", "[", " ", "]", " ", "[", "0", "9", ":", "0", "0", "]", " ",
      "a", " ", "#", "b">>
LineHashOnly ==
    <<"-", " ", "[", "x", "]", " ", "[", "1", "0", ":", "3", "0", "]", " ", "#">>
LineNotes == <<"#", "#", " ", "N", "o", "t", "e", "s">>
LineH1Wide ==
    <<"#", "#", " ", " ", "2", "0", "2", "5", "-", "1", "1", "-", "0", "4">>

\* The lines a month file is made of at the start
LinePool ==
    {LineBlank, LineH1, LineH2, LineEntry, LineHashOnly, LineNotes, LineH1Wide}

\* The contents of a month file at the start: missing, or any text of up to
\* MaxInitSegs segments over the pool
FilesOver(pool) == UNION {[1..n -> pool] : n \in 0..MaxInitSegs}

\* The entries the callers pass to Append and Edit
EntryPool ==
    {Entry(StatusDone, D1, 14, 10, <<"a">>, <<<<"b">>>>),
     Entry(StatusTodo, D2, 9, 0, <<>>, <<>>)}

Indexes == 0..MaxIndex

Procs == {1, 2}

\* Most tags of an entry that is formatted and parsed back
MaxTags == 2

TextPool == {<<>>, <<"a">>, <<"a", " ", "b">>, <<"#", "a">>}

TagPool == {<<"b">>, <<"c">>}

TagLists == UNION {[1..n -> TagPool] : n \in 0..MaxTags}

\* The entries that are formatted and parsed back
FormatPool ==
    {Entry(st, D1, hm[1], hm[2], text, tags) :
        st \in {StatusTodo, StatusDone}, hm \in {<<9, 0>>, <<23, 59>>},
        text \in TextPool, tags \in TagLists}

NoParse == [ok |-> FALSE, entry |-> NoEntry]

\* An entry on its way through formatEntry and parseEntryLine
Format(pc, entry, line, parsed) ==
    [pc |-> pc, entry |-> entry, line |-> line, parsed |-> parsed]

NoFormat == Format("none", NoEntry, <<>>, NoParse)

D3 == Date(2025, 11, 6)

\* The times the callers of the Reader pass: days of the month of the file,
\* at midnight and at noon
ReadTimes == {Time(d, m) : d \in {D1, D2, D3}, m \in {0, 720}}

\* A line too long for the Scanner
LineLong ==
    <<"-", " ", "[", " ", "]", " ", "[", "0", "9", ":", "0", "0", "]", " ",
      LongRun>>

ReadPool == {LineH1, LineH2, LineEntry, LineLong}

\* The month file the Reader finds: missing, or a text of up to MaxInitSegs
\* lines over the pool, each line with its line end
ReadFiles == {Missing} \cup {f \o <<LineBlank>> : f \in FilesOver(ReadPool)}

\* A Reader call: Section(start) or SectionsBetween(start, end); current is
\* the loop variable of SectionsBetween, visited the days Section was called
\* for; section and sections are the values returned, err the error
Read(pc, op, start, end, current, visited, section, sections, err, pre) ==
    [pc |-> pc, op |-> op, start |-> start, end |-> end, current |-> current,
     visited |-> visited, section |-> section, sections |-> sections,
     err |-> err, pre |-> pre]

NoRead == Read("none", "none", NoTime, NoTime, NoTime, <<>>, NoSection, <<>>, "ok", Missing)

\* No TUI is running
NoUi == [pc |-> "none"]

\* ------------------------------------------------------------------------
\* Writer calls, each from entry to return
\* ------------------------------------------------------------------------

Call(op, date, index, entry, err, ret, pre, nth) ==
    [op |-> op, date |-> date, index |-> index, entry |-> entry,
     err |-> err, ret |-> ret, pre |-> pre, nth |-> nth]

NoCall == Call("none", NoDate, 0, NoEntry, "ok", NoEntry, Missing, 0)

Idle ==
    [pc |-> "idle", op |-> "none", date |-> NoDate, index |-> 0,
     entry |-> NoEntry, pre |-> Missing, loaded |-> Missing, lines |-> <<>>,
     ret |-> NoEntry, temp |-> Missing, err |-> "none"]

\* What the call does with the lines of the file, after loadSection
planWith(op, lines, date, index, state, line) ==
    CASE op = "Append" -> appendPlan(lines, date, state, line)
      [] op = "Toggle" -> togglePlan(lines, state, index)
      [] op = "Edit" -> editPlan(lines, state, index, line)
      [] op = "Delete" -> deletePlan(lines, state, index)

planOf(op, lines, date, index, entry) ==
    planWith(op, lines, date, index, loadSection(lines, date),
             formatEntry(normalizeEntryTime(date, entry)))

\* The call on the content that EnsureMonthFile leaves
planOn(op, loaded, date, index, entry) ==
    planOf(op, splitLines(loaded), date, index, entry)

\* One Writer call: loadSection (EnsureMonthFile, ReadFile, splitLines, the
\* section of the date), the operation, writeLines
Returns(op, date, index, entry, loaded, plan) ==
    /\ disk' = IF plan.err = "ok" THEN writeLinesContent(plan.lines) ELSE loaded
    /\ last' = Call(op, date, index, entry, plan.err, plan.ret, disk, last.nth + 1)
    /\ UNCHANGED <<w, fmt, rd, ui>>

CallOn(op, date, index, entry, loaded) ==
    Returns(op, date, index, entry, loaded, planOn(op, loaded, date, index, entry))

WriterCall(op, date, index, entry) ==
    CallOn(op, date, index, entry, EnsureMonthFile(disk, date))

WriterAppend ==
    /\ last.nth = 0
    /\ \E d \in Dates, e \in EntryPool : WriterCall("Append", d, 0, e)

WriterToggle ==
    /\ last.nth = 0
    /\ \E d \in Dates, i \in Indexes : WriterCall("Toggle", d, i, NoEntry)

WriterEdit ==
    /\ last.nth = 0
    /\ \E d \in Dates, i \in Indexes, e \in EntryPool : WriterCall("Edit", d, i, e)

WriterDelete ==
    /\ last.nth = 0
    /\ \E d \in Dates, i \in Indexes : WriterCall("Delete", d, i, NoEntry)

\* The caller of a Toggle that succeeded toggles the same entry once more
WriterToggleAgain ==
    /\ last.nth = 1 /\ last.op = "Toggle" /\ last.err = "ok"
    /\ WriterCall("Toggle", last.date, last.index, NoEntry)

Init ==
    /\ disk \in FilesOver(LinePool)
    /\ last = NoCall
    /\ w = [p \in Procs |-> Idle]
    /\ ui = NoUi
    /\ fmt = NoFormat
    /\ rd = NoRead

Next ==
    \/ WriterAppend
    \/ WriterToggle
    \/ WriterEdit
    \/ WriterDelete
    \/ WriterToggleAgain

\* A month file with any content, one Writer call on it, and a second Toggle
\* of the same entry after a Toggle
Spec == Init /\ [][Next]_vars

\* ------------------------------------------------------------------------
\* Writer calls one after another on the same month file
\* ------------------------------------------------------------------------

\* Most calls made one after another
MaxCalls == 3

\* The contents of the month file before the first of the calls
CallFiles ==
    {Missing,
     <<LineH1, LineEntry, LineBlank>>,
     <<LineH2, LineBlank, LineH1Wide, LineEntry, LineBlank>>}

\* The entries passed to Append and Edit: those of the pool and one whose
\* text makes a line too long for the Scanner
CallEntries == EntryPool \cup {Entry(StatusTodo, D1, 9, 0, <<LongRun>>, <<>>)}

CallAppend ==
    /\ last.nth < MaxCalls
    /\ \E d \in Dates, e \in CallEntries : WriterCall("Append", d, 0, e)

CallToggle ==
    /\ last.nth < MaxCalls
    /\ \E d \in Dates, i \in Indexes : WriterCall("Toggle", d, i, NoEntry)

CallEdit ==
    /\ last.nth < MaxCalls
    /\ \E d \in Dates, i \in Indexes, e \in CallEntries : WriterCall("Edit", d, i, e)

CallDelete ==
    /\ last.nth < MaxCalls
    /\ \E d \in Dates, i \in Indexes : WriterCall("Delete", d, i, NoEntry)

InitCalls ==
    /\ disk \in CallFiles
    /\ last = NoCall
    /\ w = [p \in Procs |-> Idle]
    /\ ui = NoUi
    /\ fmt = NoFormat
    /\ rd = NoRead

NextCalls ==
    \/ CallAppend
    \/ CallToggle
    \/ CallEdit
    \/ CallDelete

\* Up to MaxCalls Writer calls, each returning before the next begins
SpecCalls == InitCalls /\ [][NextCalls]_vars

\* ------------------------------------------------------------------------
\* An entry formatted by the Writer and parsed back by the Parser
\* ------------------------------------------------------------------------

\* The Writer formats the entry into its line
FormatEntry ==
    /\ fmt.pc = "entry"
    /\ fmt' = Format("line", fmt.entry, formatEntry(fmt.entry), NoParse)
    /\ UNCHANGED <<disk, last, w, rd, ui>>

\* The Parser reads the line back for the date of the section
ParseEntryLine ==
    /\ fmt.pc = "line"
    /\ fmt' = Format("parsed", fmt.entry, fmt.line,
                     parseEntryLine(fmt.line, fmt.entry.Date))
    /\ UNCHANGED <<disk, last, w, rd, ui>>

\* The Writer formats the entry the Parser returned, as Toggle does
FormatAgain ==
    /\ fmt.pc = "parsed"
    /\ fmt.parsed.ok
    /\ fmt' = [pc |-> "again", entry |-> fmt.entry, line |-> fmt.line,
               parsed |-> fmt.parsed, again |-> formatEntry(fmt.parsed.entry)]
    /\ UNCHANGED <<disk, last, w, rd, ui>>

InitFormat ==
    /\ disk = Missing
    /\ last = NoCall
    /\ w = [p \in Procs |-> Idle]
    /\ ui = NoUi
    /\ fmt \in {Format("entry", e, <<>>, NoParse) : e \in FormatPool}
    /\ rd = NoRead

NextFormat ==
    \/ FormatEntry
    \/ ParseEntryLine
    \/ FormatAgain

\* Any entry of the pool, formatted, parsed back and formatted again
SpecFormat == InitFormat /\ [][NextFormat]_vars

\* ------------------------------------------------------------------------
\* Writer calls step by step: loadSection and the operation, then the steps
\* of writeLines, each of which may fail; the process may stop at any step
\* ------------------------------------------------------------------------

WriteSteps == {"create", "write", "sync", "close", "chmod", "rename"}

\* The month file after a call that fails in EnsureMonthFile or ReadFile
loadFailure(content, date) ==
    {content, EnsureMonthFile(content, date)}
        \cup (IF content = Missing THEN {EmptyContent} ELSE {})

Return(p, err, ret) ==
    /\ w' = [w EXCEPT ![p].pc = "returned", ![p].temp = Missing, ![p].err = err]
    /\ last' = Call(w[p].op, w[p].date, w[p].index, w[p].entry, err, ret,
                    w[p].pre, last.nth + 1)
    /\ UNCHANGED <<fmt, rd, ui>>

\* Entry to Append, Toggle, Edit or Delete up to the call of writeLines
Started(op, date, index, entry, pre) ==
    [Idle EXCEPT !.op = op, !.date = date, !.index = index, !.entry = entry,
                 !.pre = pre]

Loaded(p, op, date, index, entry, loaded, plan, started) ==
        /\ w[p].pc = "idle"
        /\ UNCHANGED <<fmt, rd, ui>>
        /\ \/ /\ plan.err = "ok"
              /\ disk' = loaded
              /\ w' = [w EXCEPT ![p] = [started EXCEPT !.pc = "create",
                                           !.loaded = loaded,
                                           !.lines = plan.lines,
                                           !.ret = plan.ret]]
              /\ UNCHANGED last
           \/ /\ plan.err # "ok"
              /\ disk' = loaded
              /\ w' = [w EXCEPT ![p] = [started EXCEPT !.pc = "returned",
                                           !.loaded = loaded,
                                           !.err = plan.err]]
              /\ last' = Call(op, date, index, entry, plan.err, NoEntry, disk,
                              last.nth + 1)
           \/ /\ disk' \in loadFailure(disk, date)
              /\ w' = [w EXCEPT ![p] = [started EXCEPT !.pc = "returned",
                                           !.err = "io"]]
              /\ last' = Call(op, date, index, entry, "io", NoEntry, disk,
                              last.nth + 1)

BeginOn(p, op, date, index, entry, loaded) ==
    Loaded(p, op, date, index, entry, loaded,
           planOn(op, loaded, date, index, entry),
           Started(op, date, index, entry, disk))

Begin(p, op, date, index, entry) ==
    BeginOn(p, op, date, index, entry, EnsureMonthFile(disk, date))

BeginAppend(p) == \E d \in Dates, e \in EntryPool : Begin(p, "Append", d, 0, e)

BeginToggle(p) == \E d \in Dates, i \in Indexes : Begin(p, "Toggle", d, i, NoEntry)

BeginEdit(p) ==
    \E d \in Dates, i \in Indexes, e \in EntryPool : Begin(p, "Edit", d, i, e)

BeginDelete(p) == \E d \in Dates, i \in Indexes : Begin(p, "Delete", d, i, NoEntry)

\* os.CreateTemp(dir, "kerja-*")
CreateTemp(p) ==
    /\ w[p].pc = "create"
    /\ w' = [w EXCEPT ![p].pc = "write", ![p].temp = EmptyContent]
    /\ UNCHANGED <<disk, last, fmt, rd, ui>>

\* The content written to the month file itself instead of the temporary
\* file
WriteStringInPlace(p) ==
    /\ w[p].pc = "write"
    /\ disk' = writeLinesContent(w[p].lines)
    /\ w' = [w EXCEPT ![p].pc = "sync", ![p].temp = writeLinesContent(w[p].lines)]
    /\ UNCHANGED <<last, fmt, rd, ui>>

\* What a WriteString that is cut short leaves in the temporary file
partialContents(lines) ==
    LET content == writeLinesContent(lines)
    IN  {SubSeq(content, 1, k) : k \in 1..Len(content)}

\* The operation worked out again on the month file as it is at the time of
\* writing, and that content written
WriteStringReloads(p) ==
    /\ w[p].pc = "write"
    /\ w' = [w EXCEPT ![p].pc = "sync",
                      ![p].temp = writeLinesContent(
                          planOn(w[p].op, EnsureMonthFile(disk, w[p].date),
                                 w[p].date, w[p].index, w[p].entry).lines)]
    /\ UNCHANGED <<disk, last, fmt, rd, ui>>

\* The content written through the month file itself, which holds part of
\* it until the write is complete
WriteStringThroughFile(p) ==
    /\ w[p].pc = "write"
    /\ disk' \in partialContents(w[p].lines)
    /\ w' = [w EXCEPT ![p].pc = "sync", ![p].temp = writeLinesContent(w[p].lines)]
    /\ UNCHANGED <<last, fmt, rd, ui>>

\* temp.WriteString(content)
WriteString(p) ==
    /\ w[p].pc = "write"
    /\ w' = [w EXCEPT ![p].pc = "sync", ![p].temp = writeLinesContent(w[p].lines)]
    /\ UNCHANGED <<disk, last, fmt, rd, ui>>

\* temp.Sync()
Sync(p) ==
    /\ w[p].pc = "sync"
    /\ w' = [w EXCEPT ![p].pc = "close"]
    /\ UNCHANGED <<disk, last, fmt, rd, ui>>

\* temp.Close()
Close(p) ==
    /\ w[p].pc = "close"
    /\ w' = [w EXCEPT ![p].pc = "chmod"]
    /\ UNCHANGED <<disk, last, fmt, rd, ui>>

\* os.Stat(path), and os.Chmod(temp.Name(), info.Mode()) when it succeeds
Chmod(p) ==
    /\ w[p].pc = "chmod"
    /\ w' = [w EXCEPT ![p].pc = "rename"]
    /\ UNCHANGED <<disk, last, fmt, rd, ui>>

\* A rename that replaces the month file and reports a failure all the same
RenameThenFails(p) ==
    /\ w[p].pc = "rename"
    /\ disk' = w[p].temp
    /\ Return(p, "io", IF w[p].op = "Delete" THEN w[p].ret ELSE NoEntry)

\* os.Rename(temp.Name(), path) succeeds, and the call returns
Rename(p) ==
    /\ w[p].pc = "rename"
    /\ disk' = w[p].temp
    /\ Return(p, "ok", w[p].ret)

\* A failing step after which the temporary file stays in the directory
StepFailsLeavesTemp(p) ==
    /\ w[p].pc \in WriteSteps
    /\ UNCHANGED <<disk, fmt, rd, ui>>
    /\ w' = [w EXCEPT ![p].pc = "returned", ![p].err = "io"]
    /\ last' = Call(w[p].op, w[p].date, w[p].index, w[p].entry, "io",
                    IF w[p].op = "Delete" THEN w[p].ret ELSE NoEntry,
                    w[p].pre, last.nth + 1)

\* The step at hand fails: writeLines returns the error and the deferred
\* os.Remove deletes the temporary file; Delete returns the entry as well
StepFails(p) ==
    /\ w[p].pc \in WriteSteps
    /\ UNCHANGED disk
    /\ Return(p, "io", IF w[p].op = "Delete" THEN w[p].ret ELSE NoEntry)

\* The process stops before the step at hand completes; nothing deferred runs
Crash(p) ==
    /\ w[p].pc \in WriteSteps
    /\ \E t \in (IF w[p].pc = "write" THEN partialContents(w[p].lines)
                 ELSE {w[p].temp}) :
          w' = [w EXCEPT ![p].pc = "crashed", ![p].temp = t]
    /\ UNCHANGED <<disk, last, fmt, rd, ui>>

LineTitle ==
    <<"#", " ", "N", "o", "v", "e", "m", "b", "e", "r", " ", "2", "0", "2", "5">>

StepPool == {LineBlank, LineTitle, LineH1, LineEntry}

InitSteps ==
    /\ disk \in FilesOver(StepPool)
    /\ last = NoCall
    /\ w = [p \in Procs |-> Idle]
    /\ ui = NoUi
    /\ fmt = NoFormat
    /\ rd = NoRead

StepsOf(p) ==
    \/ BeginAppend(p)
    \/ BeginToggle(p)
    \/ BeginEdit(p)
    \/ BeginDelete(p)
    \/ CreateTemp(p)
    \/ WriteString(p)
    \/ Sync(p)
    \/ Close(p)
    \/ Chmod(p)
    \/ Rename(p)
    \/ StepFails(p)
    \/ Crash(p)

NextSteps == StepsOf(1)

\* One Writer call of one process, step by step
SpecSteps == InitSteps /\ [][NextSteps]_vars

\* ------------------------------------------------------------------------
\* Reader calls
\* ------------------------------------------------------------------------

\* The error Reader.Section returns with the result of its loop
sectionErr(res) ==
    IF res.found THEN "ok"
    ELSE IF res.err THEN "bufio.ErrTooLong"
    ELSE "ErrSectionNotFound"

\* Reader.Section returns res; EnsureMonthFile has made sure of the file
SectionReturns(t, res) ==
    /\ rd' = Read("returned", "Section", t, NoTime, NoTime, <<t.date>>,
                  res.section, <<>>, sectionErr(res), disk)
    /\ disk' = EnsureMonthFile(disk, t.date)
    /\ UNCHANGED <<last, w, fmt, ui>>

\* Reader.Section(date), from entry to return
ReaderSection ==
    /\ rd.pc = "none"
    /\ \E t \in ReadTimes : SectionReturns(t, Section(disk, t.date))

\* Reader.Section(date) when EnsureMonthFile or os.Open fails
ReaderSectionFails ==
    /\ rd.pc = "none"
    /\ \E t \in ReadTimes :
          /\ disk' \in loadFailure(disk, t.date)
          /\ rd' = Read("returned", "Section", t, NoTime, NoTime, <<t.date>>,
                        NoSection, <<>>, "io", disk)
    /\ UNCHANGED <<last, w, fmt, ui>>

\* SectionsBetween(start, end) up to its loop; end before start returns at
\* once
BetweenBegin ==
    /\ rd.pc = "none"
    /\ \E start \in ReadTimes, end \in ReadTimes :
          rd' = IF Before(end, start)
                THEN Read("returned", "SectionsBetween", start, end, start,
                          <<>>, NoSection, <<>>, "ok", disk)
                ELSE Read("loop", "SectionsBetween", start, end, start,
                          <<>>, NoSection, <<>>, "ok", disk)
    /\ UNCHANGED <<disk, last, w, fmt, ui>>

\* The loop pass putting a section found before those of the earlier days
BetweenVisitedPrepends(res) ==
    /\ rd' = IF res.found
             THEN [rd EXCEPT !.current = AddDay(rd.current),
                             !.visited = Append(rd.visited, rd.current.date),
                             !.sections = <<res.section>> \o rd.sections]
             ELSE IF res.err
             THEN [rd EXCEPT !.pc = "returned",
                             !.visited = Append(rd.visited, rd.current.date),
                             !.sections = <<>>,
                             !.err = sectionErr(res)]
             ELSE [rd EXCEPT !.current = AddDay(rd.current),
                             !.visited = Append(rd.visited, rd.current.date)]
    /\ disk' = EnsureMonthFile(disk, rd.current.date)
    /\ UNCHANGED <<last, w, fmt, ui>>

\* One pass of the loop with the result res of Section(current)
BetweenVisited(res) ==
    /\ rd' = IF res.found
             THEN [rd EXCEPT !.current = AddDay(rd.current),
                             !.visited = Append(rd.visited, rd.current.date),
                             !.sections = Append(rd.sections, res.section)]
             ELSE IF res.err
             THEN [rd EXCEPT !.pc = "returned",
                             !.visited = Append(rd.visited, rd.current.date),
                             !.sections = <<>>,
                             !.err = sectionErr(res)]
             ELSE [rd EXCEPT !.current = AddDay(rd.current),
                             !.visited = Append(rd.visited, rd.current.date)]
    /\ disk' = EnsureMonthFile(disk, rd.current.date)
    /\ UNCHANGED <<last, w, fmt, ui>>

\* The loop body of SectionsBetween: Section(current)
BetweenVisit ==
    /\ rd.pc = "loop"
    /\ ~After(rd.current, rd.end)
    /\ BetweenVisited(Section(disk, rd.current.date))

\* The loop body returning the sections of the earlier days with the error
BetweenVisitFailsPartial ==
    /\ rd.pc = "loop"
    /\ ~After(rd.current, rd.end)
    /\ disk' \in loadFailure(disk, rd.current.date)
    /\ rd' = [rd EXCEPT !.pc = "returned",
                        !.visited = Append(rd.visited, rd.current.date),
                        !.err = "io"]
    /\ UNCHANGED <<last, w, fmt, ui>>

\* The loop body when Section(current) fails in EnsureMonthFile or os.Open
BetweenVisitFails ==
    /\ rd.pc = "loop"
    /\ ~After(rd.current, rd.end)
    /\ disk' \in loadFailure(disk, rd.current.date)
    /\ rd' = [rd EXCEPT !.pc = "returned",
                        !.visited = Append(rd.visited, rd.current.date),
                        !.sections = <<>>,
                        !.err = "io"]
    /\ UNCHANGED <<last, w, fmt, ui>>

\* The loop ends: SectionsBetween returns the sections
BetweenReturn ==
    /\ rd.pc = "loop"
    /\ After(rd.current, rd.end)
    /\ rd' = [rd EXCEPT !.pc = "returned"]
    /\ UNCHANGED <<disk, last, w, fmt, ui>>

InitReader ==
    /\ disk \in ReadFiles
    /\ last = NoCall
    /\ w = [p \in Procs |-> Idle]
    /\ ui = NoUi
    /\ fmt = NoFormat
    /\ rd = NoRead

NextReader ==
    \/ ReaderSection
    \/ ReaderSectionFails
    \/ BetweenBegin
    \/ BetweenVisit
    \/ BetweenVisitFails
    \/ BetweenReturn

\* One Reader call on a month file with any content of the pool
SpecReader == InitReader /\ [][NextReader]_vars

\* ------------------------------------------------------------------------
\* EnsureMonthFile calls
\* ------------------------------------------------------------------------

\* Most EnsureMonthFile calls in a row
MaxEnsures == 3

\* The month file after an EnsureMonthFile that fails: MkdirAll or OpenFile
\* fails and nothing changes, or Stat or WriteString fails after OpenFile
\* has created the file
ensureFailure(content) ==
    {content} \cup (IF content = Missing THEN {EmptyContent} ELSE {})

\* Manager.EnsureMonthFile(t), from entry to return
EnsureCall ==
    /\ last.nth < MaxEnsures
    /\ \E d \in Dates :
          /\ disk' = EnsureMonthFile(disk, d)
          /\ last' = Call("EnsureMonthFile", d, 0, NoEntry, "ok", NoEntry, disk,
                          last.nth + 1)
    /\ UNCHANGED <<w, fmt, rd, ui>>

\* Manager.EnsureMonthFile(t) returns an error
EnsureCallFails ==
    /\ last.nth < MaxEnsures
    /\ \E d \in Dates :
          /\ disk' \in ensureFailure(disk)
          /\ last' = Call("EnsureMonthFile", d, 0, NoEntry, "io", NoEntry, disk,
                          last.nth + 1)
    /\ UNCHANGED <<w, fmt, rd, ui>>

NextEnsure == EnsureCall \/ EnsureCallFails

\* EnsureMonthFile called up to MaxEnsures times on a month file
SpecEnsure == InitSteps /\ [][NextEnsure]_vars

\* ------------------------------------------------------------------------
\* The edit command (package cli)
\* ------------------------------------------------------------------------

UpperChars ==
    <<"A", "B", "C", "D", "E", "F", "G", "H", "I", "J", "K", "L", "M",
      "N", "O", "P", "Q", "R", "S", "T", "U", "V", "W", "X", "Y", "Z">>

LowerChars ==
    <<"a", "b", "c", "d", "e", "f", "g", "h", "i", "j", "k", "l", "m",
      "n", "o", "p", "q", "r", "s", "t", "u", "v", "w", "x", "y", "z">>

lowerChar(c) ==
    IF \E i \in 1..26 : UpperChars[i] = c
    THEN LowerChars[CHOOSE i \in 1..26 : UpperChars[i] = c]
    ELSE c

\* strings.ToLower
RECURSIVE ToLower(_)
ToLower(str) ==
    IF str = <<>> THEN <<>> ELSE <<lowerChar(Head(str))>> \o ToLower(Tail(str))

\* strings.Join(parts, " ")
RECURSIVE JoinSpace(_)
JoinSpace(parts) ==
    IF parts = <<>> THEN <<>>
    ELSE IF Len(parts) = 1 THEN parts[1]
    ELSE parts[1] \o <<" ">> \o JoinSpace(Tail(parts))

\* parseTextAndTags: the arguments that start with '#' and are longer than
\* one character are tags, the others make the text
RECURSIVE textPartsOf(_)
textPartsOf(args) ==
    IF args = <<>> THEN <<>>
    ELSE IF HasPrefix(Head(args), <<"#">>) /\ Len(Head(args)) > 1
    THEN textPartsOf(Tail(args))
    ELSE <<Head(args)>> \o textPartsOf(Tail(args))

RECURSIVE tagsOfArgs(_)
tagsOfArgs(args) ==
    IF args = <<>> THEN <<>>
    ELSE IF HasPrefix(Head(args), <<"#">>) /\ Len(Head(args)) > 1
    THEN <<Tail(Head(args))>> \o tagsOfArgs(Tail(args))
    ELSE tagsOfArgs(Tail(args))

parseTextAndTags(args) ==
    [text |-> TrimSpace(JoinSpace(textPartsOf(args))), tags |-> tagsOfArgs(args)]

\* time.ParseInLocation("15:04", timeFlag, loc): one or two digits of hour,
\* a colon, two digits of minute
clockOf(hour, min) ==
    IF AllDigits(hour) /\ AllDigits(min)
       /\ TwoDigitVal(hour) < 24 /\ TwoDigitVal(min) < 60
    THEN [ok |-> TRUE, hour |-> TwoDigitVal(hour), min |-> TwoDigitVal(min)]
    ELSE [ok |-> FALSE, hour |-> 0, min |-> 0]

parseClock(timeFlag) ==
    IF Len(timeFlag) = 5 /\ timeFlag[3] = ":"
    THEN clockOf(SubSeq(timeFlag, 1, 2), SubSeq(timeFlag, 4, 5))
    ELSE IF Len(timeFlag) = 4 /\ timeFlag[2] = ":"
    THEN clockOf(<<"0", timeFlag[1]>>, SubSeq(timeFlag, 3, 4))
    ELSE [ok |-> FALSE, hour |-> 0, min |-> 0]

\* resolveTime(date, timeFlag) for a flag that is given
resolveTime(timeFlag) == parseClock(timeFlag)

\* parseStatusFlag(value, current) as called with the lowered value
statusOf(lowered, current) ==
    IF lowered = <<"t", "o", "d", "o">> THEN [ok |-> TRUE, status |-> StatusTodo]
    ELSE IF lowered = <<"d", "o", "n", "e">> THEN [ok |-> TRUE, status |-> StatusDone]
    ELSE [ok |-> FALSE, status |-> current]

parseStatusFlag(value, current) ==
    IF value = <<>> THEN [ok |-> TRUE, status |-> current]
    ELSE statusOf(ToLower(value), current)

\* The steps of the edit command from current to updated: text and tags,
\* then the time, then the status
withText(entry, parsed) == [entry EXCEPT !.Text = parsed.text, !.Tags = parsed.tags]

withTime(entry, clock) ==
    [ok |-> clock.ok,
     entry |-> IF clock.ok THEN [entry EXCEPT !.Hour = clock.hour, !.Min = clock.min]
               ELSE entry]

withStatus(entry, parsed) ==
    [ok |-> parsed.ok, entry |-> [entry EXCEPT !.Status = parsed.status]]

updatedText(current, textArgs) ==
    IF Len(textArgs) > 0 THEN withText(current, parseTextAndTags(textArgs))
    ELSE current

updatedTime(entry, timeFlag) ==
    IF timeFlag # <<>> THEN withTime(entry, resolveTime(timeFlag))
    ELSE [ok |-> TRUE, entry |-> entry]

updatedStatus(timed, statusFlag) ==
    IF ~timed.ok THEN timed
    ELSE IF statusFlag # <<>>
    THEN withStatus(timed.entry, parseStatusFlag(statusFlag, timed.entry.Status))
    ELSE timed

updatedEntry(current, textArgs, timeFlag, statusFlag) ==
    updatedStatus(updatedTime(updatedText(current, textArgs), timeFlag), statusFlag)

\* A run of the edit command: its arguments, the entry it read (ret), the
\* entry it passed to Writer.Edit (entry), and what it returned
Command(date, index, textArgs, timeFlag, statusFlag, current, updated, err, pre) ==
    [op |-> "edit", date |-> date, index |-> index, entry |-> updated,
     err |-> err, ret |-> current, pre |-> pre, nth |-> 1,
     text |-> textArgs, time |-> timeFlag, status |-> statusFlag]

editReturns(content, cmd) ==
    /\ disk' = content
    /\ last' = cmd
    /\ UNCHANGED <<w, fmt, rd, ui>>

\* writer.Edit(ctx, date, index, updated)
editWrites(d, i, ta, tf, sf, current, updated, loaded, plan) ==
    editReturns(IF plan.err = "ok" THEN writeLinesContent(plan.lines) ELSE loaded,
                Command(d, i, ta, tf, sf, current, updated, plan.err, disk))

editWith(d, i, ta, tf, sf, current, upd, loaded) ==
    IF ~upd.ok
    THEN editReturns(loaded, Command(d, i, ta, tf, sf, current, NoEntry, "flag", disk))
    ELSE editWrites(d, i, ta, tf, sf, current, upd.entry, loaded,
                    planOn("Edit", loaded, d, i, upd.entry))

\* reader.Section(ctx, date) has returned res
editOn(d, i, ta, tf, sf, loaded, res) ==
    IF sectionErr(res) # "ok"
    THEN editReturns(loaded, Command(d, i, ta, tf, sf, NoEntry, NoEntry,
                                     sectionErr(res), disk))
    ELSE IF i > Len(res.section.Entries)
    THEN editReturns(loaded, Command(d, i, ta, tf, sf, NoEntry, NoEntry,
                                     "ErrInvalidIndex", disk))
    ELSE editWith(d, i, ta, tf, sf, res.section.Entries[i],
                  updatedEntry(res.section.Entries[i], ta, tf, sf), loaded)

editRun(d, i, ta, tf, sf, loaded) ==
    IF i <= 0
    THEN editReturns(disk, Command(d, i, ta, tf, sf, NoEntry, NoEntry, "index", disk))
    ELSE editOn(d, i, ta, tf, sf, loaded, Section(loaded, d))

LineDone ==
    <<"-", " ", "[", "x", "]", " ", "[", "1", "0", ":", "3", "0", "]", " ", "c">>

EditPool == {LineH1, LineH1Wide, LineEntry, LineDone}

EditTexts == {<<>>, <<<<"d">>>>, <<<<"d">>, <<"#", "e">>>>}

TimeFlags == {<<>>, <<"1", "0", ":", "4", "5">>, <<"9", ":", "0", "5">>, <<"2", "5", ":", "0", "0">>}

StatusFlags == {<<>>, <<"t", "o", "d", "o">>, <<"D", "o", "n", "e">>, <<"x">>}

\* kerja edit --date d [--time tf] [--status sf] i [text ...]
EditCommand ==
    /\ last.nth = 0
    /\ \E d \in Dates, i \in Indexes, ta \in EditTexts, tf \in TimeFlags,
          sf \in StatusFlags :
          editRun(d, i, ta, tf, sf, EnsureMonthFile(disk, d))

InitEdit ==
    /\ disk \in FilesOver(EditPool)
    /\ last = NoCall
    /\ w = [p \in Procs |-> Idle]
    /\ ui = NoUi
    /\ fmt = NoFormat
    /\ rd = NoRead

NextEdit == EditCommand

\* One run of the edit command on a month file
SpecEdit == InitEdit /\ [][NextEdit]_vars

\* ------------------------------------------------------------------------
\* The TUI (package ui): Model and Update
\* ------------------------------------------------------------------------

\* today()
Today == D1

\* AddDate(0, 0, -1)
PrevDay(date) ==
    IF date.day > 1 THEN Date(date.year, date.month, date.day - 1)
    ELSE IF date.month > 1
    THEN Date(date.year, date.month - 1, DaysIn(date.month - 1, date.year))
    ELSE Date(date.year - 1, 12, 31)

\* A tea.Cmd: loadSectionCmd, toggleEntryCmd, appendEntryCmd, editEntryCmd or
\* deleteEntryCmd with the values it has captured; index counts from 0
Cmd(op, date, index, entry) ==
    [op |-> op, date |-> date, index |-> index, entry |-> entry]

NoCmd == Cmd("none", NoDate, 0, NoEntry)

\* What a handler returns: the Model and the command
Then(m, cmd) == [m |-> m, cmd |-> cmd]

\* NewModel; the display strings (inputLabel, statusLine, errorLine) are
\* left out
NewModel(today) ==
    [currentDate |-> today, section |-> DateSection(today, <<>>), selected |-> 0,
     mode |-> "normal", inputBuffer |-> <<>>, pendingStatus |-> StatusTodo,
     editingIndex |-> -1, shouldSelectLast |-> FALSE, pendingSelectIndex |-> -1,
     loading |-> TRUE]

InputModes == {"addTodo", "addLog", "edit", "editTime", "editStatus"}

\* A reload that sets loading and starts no load
reloadWithoutLoad(m) == Then([m EXCEPT !.loading = TRUE], NoCmd)

reload(m) ==
    Then([m EXCEPT !.loading = TRUE], Cmd("load", m.currentDate, 0, NoEntry))

gotoDate(m, date) ==
    IF sameDay(m.currentDate, date) THEN reload(m)
    ELSE Then([m EXCEPT !.currentDate = date, !.section = DateSection(date, <<>>),
                        !.selected = 0, !.loading = TRUE, !.mode = "normal",
                        !.inputBuffer = <<>>, !.editingIndex = -1,
                        !.pendingSelectIndex = -1, !.shouldSelectLast = FALSE],
              Cmd("load", date, 0, NoEntry))

toggleSelected(m) == Then(m, Cmd("toggle", m.currentDate, m.selected, NoEntry))

beginAdd(m, status) ==
    Then([m EXCEPT !.mode = IF status = StatusDone THEN "addLog" ELSE "addTodo",
                   !.pendingStatus = status, !.inputBuffer = <<>>,
                   !.editingIndex = -1],
         NoCmd)

\* entryToInput: "!done" or "!todo", "@HH:MM", the words of the text, the
\* tags with '#', joined by spaces
RECURSIVE hashTags(_)
hashTags(tags) ==
    IF tags = <<>> THEN <<>> ELSE <<<<"#">> \o Head(tags)>> \o hashTags(Tail(tags))

entryToInput(entry) ==
    JoinSpace(<<IF entry.Status = StatusDone THEN <<"!", "d", "o", "n", "e">>
                ELSE <<"!", "t", "o", "d", "o">>,
                <<"@">> \o TwoDigits(entry.Hour) \o <<":">> \o TwoDigits(entry.Min)>>
              \o Fields(entry.Text) \o hashTags(entry.Tags))

formatClock(entry) == TwoDigits(entry.Hour) \o <<":">> \o TwoDigits(entry.Min)

\* beginEdit, beginEditTime, beginEditStatus, beginDelete: the dialog opens
\* on the selected entry with the input buffer given
beginOn(m, mode, buffer) ==
    IF Len(m.section.Entries) = 0 THEN Then(m, NoCmd)
    ELSE Then([m EXCEPT !.mode = mode, !.editingIndex = m.selected,
                        !.inputBuffer = buffer],
              NoCmd)

beginEdit(m) ==
    IF Len(m.section.Entries) = 0 THEN Then(m, NoCmd)
    ELSE beginOn(m, "edit", entryToInput(m.section.Entries[m.selected + 1]))

beginEditTime(m) ==
    IF Len(m.section.Entries) = 0 THEN Then(m, NoCmd)
    ELSE beginOn(m, "editTime", formatClock(m.section.Entries[m.selected + 1]))

beginEditStatus(m) ==
    IF Len(m.section.Entries) = 0 THEN Then(m, NoCmd)
    ELSE beginOn(m, "editStatus",
                 IF m.section.Entries[m.selected + 1].Status = StatusDone
                 THEN <<"d", "o", "n", "e">> ELSE <<"t", "o", "d", "o">>)

beginDelete(m) == beginOn(m, "confirmDelete", m.inputBuffer)

\* A cancelInput that leaves editingIndex and the input buffer as they are
cancelInputKeepsDialog(m) ==
    Then([m EXCEPT !.mode = "normal", !.pendingStatus = StatusTodo,
                   !.shouldSelectLast = FALSE, !.pendingSelectIndex = -1],
         NoCmd)

cancelInput(m) ==
    Then([m EXCEPT !.mode = "normal", !.inputBuffer = <<>>,
                   !.pendingStatus = StatusTodo, !.editingIndex = -1,
                   !.shouldSelectLast = FALSE, !.pendingSelectIndex = -1],
         NoCmd)

\* A confirmDelete that does not compare editingIndex with the section
confirmDeleteUnchecked(m) ==
    Then([m EXCEPT !.mode = "normal", !.inputBuffer = <<>>,
                   !.editingIndex = -1],
         Cmd("delete", m.currentDate, m.editingIndex, NoEntry))

confirmDelete(m) ==
    IF m.editingIndex < 0 \/ m.editingIndex >= Len(m.section.Entries)
    THEN cancelInput(m)
    ELSE Then([m EXCEPT !.mode = "normal", !.inputBuffer = <<>>,
                        !.editingIndex = -1],
              Cmd("delete", m.currentDate, m.editingIndex, NoEntry))

\* parseInputLine(input, base): the tokens of the line are tags ("#..."), a
\* time ("@HH:MM"), a status ("!todo", "!done") or words of the text
NoInput ==
    [ok |-> TRUE, parts |-> <<>>, tags |-> <<>>, hasWhen |-> FALSE, hour |-> 0,
     min |-> 0, hasStatus |-> FALSE, status |-> StatusTodo]

whenInto(acc, clock) ==
    IF clock.ok
    THEN [acc EXCEPT !.hasWhen = TRUE, !.hour = clock.hour, !.min = clock.min]
    ELSE [acc EXCEPT !.ok = FALSE]

statusInto(acc, parsed) ==
    IF parsed.ok THEN [acc EXCEPT !.hasStatus = TRUE, !.status = parsed.status]
    ELSE [acc EXCEPT !.ok = FALSE]

tokenInto(token, acc) ==
    IF HasPrefix(token, <<"#">>) /\ Len(token) > 1
    THEN [acc EXCEPT !.tags = Append(@, Tail(token))]
    ELSE IF HasPrefix(token, <<"@">>) /\ Len(token) > 1
    THEN whenInto(acc, parseClock(Tail(token)))
    ELSE IF HasPrefix(token, <<"!">>) /\ Len(token) > 1
    THEN statusInto(acc, statusOf(ToLower(Tail(token)), StatusTodo))
    ELSE [acc EXCEPT !.parts = Append(@, token)]

RECURSIVE parseTokens(_, _)
parseTokens(tokens, acc) ==
    IF tokens = <<>> \/ ~acc.ok THEN acc
    ELSE parseTokens(Tail(tokens), tokenInto(Head(tokens), acc))

parseInputLine(input) ==
    IF TrimSpace(input) = <<>> THEN NoInput
    ELSE parseTokens(Fields(input), NoInput)

inputText(parsed) == TrimSpace(JoinSpace(parsed.parts))

\* The time of day on the clock when an entry is added without "@HH:MM"
Now == [hour |-> 12, min |-> 0]

\* submitInput: the Model once the command is on its way
submitted(m, select, cmd) ==
    Then([m EXCEPT !.mode = "normal", !.inputBuffer = <<>>,
                   !.pendingSelectIndex = select, !.editingIndex = -1],
         cmd)

submitAdd(m, parsed) ==
    IF ~parsed.ok THEN Then(m, NoCmd)
    ELSE IF inputText(parsed) = <<>> /\ parsed.tags = <<>> THEN Then(m, NoCmd)
    ELSE submitted(m, -1,
             Cmd("append", m.currentDate, 0,
                 Entry(IF parsed.hasStatus THEN parsed.status ELSE m.pendingStatus,
                       m.currentDate,
                       IF parsed.hasWhen THEN parsed.hour ELSE Now.hour,
                       IF parsed.hasWhen THEN parsed.min ELSE Now.min,
                       inputText(parsed), parsed.tags)))

submitEdit(m, original, parsed) ==
    IF ~parsed.ok THEN Then(m, NoCmd)
    ELSE IF inputText(parsed) = <<>> /\ parsed.tags = <<>> /\ ~parsed.hasWhen
            /\ ~parsed.hasStatus
    THEN Then(m, NoCmd)
    ELSE submitted(m, m.editingIndex,
             Cmd("edit", m.currentDate, m.editingIndex,
                 [original EXCEPT
                     !.Text = inputText(parsed), !.Tags = parsed.tags,
                     !.Hour = IF parsed.hasWhen THEN parsed.hour ELSE @,
                     !.Min = IF parsed.hasWhen THEN parsed.min ELSE @,
                     !.Status = IF parsed.hasStatus THEN parsed.status ELSE @]))

submitTime(m, entry, clock) ==
    IF ~clock.ok THEN Then(m, NoCmd)
    ELSE submitted(m, m.editingIndex,
             Cmd("edit", m.currentDate, m.editingIndex,
                 [entry EXCEPT !.Hour = clock.hour, !.Min = clock.min]))

submitStatus(m, entry, value) ==
    IF value \notin {<<"t", "o", "d", "o">>, <<"t">>, <<"d", "o", "n", "e">>, <<"d">>}
    THEN Then(m, NoCmd)
    ELSE IF entry.Status = (IF Head(value) = "t" THEN StatusTodo ELSE StatusDone)
    THEN submitted(m, m.editingIndex, NoCmd)
    ELSE submitted(m, m.editingIndex,
             Cmd("edit", m.currentDate, m.editingIndex,
                 [entry EXCEPT !.Status = IF Head(value) = "t" THEN StatusTodo
                                          ELSE StatusDone]))

submitInput(m) ==
    IF TrimSpace(m.inputBuffer) = <<>> /\ m.mode # "edit" THEN Then(m, NoCmd)
    ELSE IF m.mode \in {"addTodo", "addLog"}
    THEN submitAdd(m, parseInputLine(TrimSpace(m.inputBuffer)))
    ELSE IF m.editingIndex < 0 \/ m.editingIndex >= Len(m.section.Entries)
    THEN cancelInput(m)
    ELSE IF m.mode = "edit"
    THEN submitEdit(m, m.section.Entries[m.editingIndex + 1],
                    parseInputLine(TrimSpace(m.inputBuffer)))
    ELSE IF m.mode = "editTime"
    THEN submitTime(m, m.section.Entries[m.editingIndex + 1],
                    parseClock(TrimSpace(m.inputBuffer)))
    ELSE submitStatus(m, m.section.Entries[m.editingIndex + 1],
                      TrimSpace(ToLower(m.inputBuffer)))

\* The keys that are no tea.KeyRunes: every other key puts its character into
\* the input buffer of an open dialog
NamedKeys == {"enter", "esc", "backspace", "ctrl+u", "down", "up", "left", "right"}

\* handleInputKey: a key while a dialog is open
handleInputKey(m, key) ==
    IF m.mode \in InputModes
    THEN CASE key = "enter" -> submitInput(m)
           [] key = "esc" -> cancelInput(m)
           [] key = "backspace" ->
                Then([m EXCEPT !.inputBuffer =
                                   IF Len(@) > 0 THEN SubSeq(@, 1, Len(@) - 1) ELSE @],
                     NoCmd)
           [] key = "ctrl+u" -> Then([m EXCEPT !.inputBuffer = <<>>], NoCmd)
           [] key = " " -> Then([m EXCEPT !.inputBuffer = Append(@, " ")], NoCmd)
           [] key \notin NamedKeys -> Then([m EXCEPT !.inputBuffer = Append(@, key)], NoCmd)
           [] OTHER -> Then(m, NoCmd)
    ELSE CASE key \in {"y", "Y"} -> confirmDelete(m)
           [] key \in {"n", "N", "esc"} -> cancelInput(m)
           [] OTHER -> Then(m, NoCmd)

\* handleKey: a key in normal mode, or handleInputKey
handleKey(m, key) ==
    IF m.mode # "normal" THEN handleInputKey(m, key)
    ELSE CASE key \in {"down", "j"} ->
                Then(IF m.selected < Len(m.section.Entries) - 1
                     THEN [m EXCEPT !.selected = @ + 1] ELSE m, NoCmd)
           [] key \in {"up", "k"} ->
                Then(IF Len(m.section.Entries) # 0 /\ m.selected > 0
                     THEN [m EXCEPT !.selected = @ - 1] ELSE m, NoCmd)
           [] key \in {"left", "h", "p"} -> gotoDate(m, PrevDay(m.currentDate))
           [] key \in {"right", "l", "n"} -> gotoDate(m, NextDay(m.currentDate))
           [] key = "t" -> gotoDate(m, Today)
           [] key = "r" -> reload(m)
           [] key \in {"x", " "} ->
                IF Len(m.section.Entries) = 0 \/ m.loading THEN Then(m, NoCmd)
                ELSE toggleSelected(m)
           [] key = "a" -> beginAdd(m, StatusTodo)
           [] key = "A" -> beginAdd(m, StatusDone)
           [] key = "e" -> beginEdit(m)
           [] key = "T" -> beginEditTime(m)
           [] key = "S" -> beginEditStatus(m)
           [] key = "d" -> beginDelete(m)
           [] OTHER -> Then(m, NoCmd)

\* A tea.Msg that a command returns: sectionLoadedMsg, toggleResultMsg,
\* appendResultMsg, editResultMsg or deleteResultMsg
Msg(type, date, index, entry, section, err) ==
    [type |-> type, date |-> date, index |-> index, entry |-> entry,
     section |-> section, err |-> err]

\* A selection after a load that keeps the selection of a section that has
\* become shorter
selectedAfterLoadUnclamped(m, n) ==
    IF n = 0 THEN 0
    ELSE IF m.shouldSelectLast THEN n - 1
    ELSE IF m.pendingSelectIndex >= 0 THEN m.pendingSelectIndex
    ELSE m.selected

\* handleSectionLoaded: the selection for a loaded section of n entries
selectedAfterLoad(m, n) ==
    IF n = 0 THEN 0
    ELSE IF m.shouldSelectLast THEN n - 1
    ELSE IF m.pendingSelectIndex >= 0
    THEN (IF m.pendingSelectIndex >= n THEN n - 1 ELSE m.pendingSelectIndex)
    ELSE IF m.selected >= n THEN n - 1
    ELSE m.selected

\* A handleSectionLoaded that takes the section of any date
handleSectionLoadedAnyDate(m, msg) ==
    IF msg.err # "ok" THEN Then([m EXCEPT !.loading = FALSE], NoCmd)
    ELSE Then([m EXCEPT !.loading = FALSE, !.section = msg.section,
                        !.selected = selectedAfterLoad(m, Len(msg.section.Entries)),
                        !.shouldSelectLast = FALSE, !.pendingSelectIndex = -1],
              NoCmd)

handleSectionLoaded(m, msg) ==
    IF ~sameDay(m.currentDate, msg.date) THEN Then(m, NoCmd)
    ELSE IF msg.err # "ok" THEN Then([m EXCEPT !.loading = FALSE], NoCmd)
    ELSE Then([m EXCEPT !.loading = FALSE, !.section = msg.section,
                        !.selected = selectedAfterLoad(m, Len(msg.section.Entries)),
                        !.shouldSelectLast = FALSE, !.pendingSelectIndex = -1],
              NoCmd)

handleToggleResult(m, msg) ==
    IF msg.err # "ok" THEN Then(m, NoCmd)
    ELSE IF msg.index >= 0 /\ msg.index < Len(m.section.Entries)
    THEN Then([m EXCEPT !.section.Entries[msg.index + 1] = msg.entry], NoCmd)
    ELSE Then(m, NoCmd)

handleAppendResult(m, msg) ==
    IF msg.err # "ok" THEN Then(m, NoCmd)
    ELSE Then([m EXCEPT !.loading = TRUE, !.shouldSelectLast = TRUE,
                        !.pendingSelectIndex = -1],
              Cmd("load", m.currentDate, 0, NoEntry))

\* handleEditResult and handleDeleteResult
handleEditResult(m, msg) ==
    IF msg.err # "ok" THEN Then(m, NoCmd)
    ELSE Then([m EXCEPT !.loading = TRUE, !.pendingSelectIndex = msg.index],
              Cmd("load", m.currentDate, 0, NoEntry))

\* Update for the message of a command
handleResult(m, msg) ==
    CASE msg.type = "load" -> handleSectionLoaded(m, msg)
      [] msg.type = "toggle" -> handleToggleResult(m, msg)
      [] msg.type = "append" -> handleAppendResult(m, msg)
      [] OTHER -> handleEditResult(m, msg)

\* loadSectionCmd: reader.Section has returned res
loadedMsg(date, res) ==
    IF res.found THEN Msg("load", date, 0, NoEntry, res.section, "ok")
    ELSE IF res.err THEN Msg("load", date, 0, NoEntry, NoSection, sectionErr(res))
    ELSE Msg("load", date, 0, NoEntry, DateSection(date, <<>>), "ok")

\* The Writer method a command calls
writerOp(op) ==
    CASE op = "toggle" -> "Toggle"
      [] op = "append" -> "Append"
      [] op = "edit" -> "Edit"
      [] OTHER -> "Delete"

\* ------------------------------------------------------------------------
\* The TUI at work
\* ------------------------------------------------------------------------

\* Most keys pressed, and most commands and messages under way when a key
\* starts another command
MaxKeys == 4
MaxInFlight == 2

UiDates == {D1, D2}

Keys ==
    {"down", "up", "left", "right", "t", "r", "x", "a", "A", "e", "T", "S",
     "d", "y", "n", "enter", "esc", "backspace"}

UiFiles ==
    {Missing, <<LineH1, LineEntry, LineDone, LineH2, LineDone, LineBlank>>,
     <<LineH1, LineDone, LineBlank>>}

\* The TUI: the Model, the commands running, the messages queued for Update,
\* the number of keys pressed and the last key that changed the Model or
\* started a command; asked is the entry under
\* the cursor when d opened the delete dialog, and stale tells that the
\* message Update handled since the last key was the section of a date not
\* on display, both kept for the properties
Ui(m, cmds, msgs, keys, key, asked) ==
    [pc |-> "running", m |-> m, cmds |-> cmds, msgs |-> msgs, keys |-> keys,
     key |-> key, asked |-> asked, stale |-> FALSE]

InitUi ==
    /\ disk \in UiFiles
    /\ last = NoCall
    /\ w = [p \in Procs |-> Idle]
    /\ fmt = NoFormat
    /\ rd = NoRead
    /\ ui = Ui(NewModel(Today), <<Cmd("load", Today, 0, NoEntry)>>, <<>>, 0,
               "none", NoEntry)

started(cmds, cmd) == IF cmd = NoCmd THEN cmds ELSE Append(cmds, cmd)

\* The entry under the cursor when the key opens the delete dialog
askedBy(key, after) ==
    IF ui.m.mode = "normal" /\ key = "d" /\ after.mode = "confirmDelete"
    THEN ui.m.section.Entries[ui.m.selected + 1]
    ELSE ui.asked

\* Update(tea.KeyMsg) has returned r
Pressed(key, r) ==
    /\ r.m.currentDate \in UiDates
    /\ r.cmd # NoCmd => Len(ui.cmds) + Len(ui.msgs) < MaxInFlight
    /\ ui' = Ui(r.m,
                started(ui.cmds, IF r.cmd.op = "delete"
                                 THEN [r.cmd EXCEPT !.entry = ui.asked] ELSE r.cmd),
                ui.msgs, ui.keys + 1,
                IF r.m = ui.m /\ r.cmd = NoCmd THEN "none" ELSE key,
                askedBy(key, r.m))
    /\ UNCHANGED <<disk, last, w, fmt, rd>>

\* The user presses a key
Press ==
    /\ ui.pc = "running"
    /\ ui.keys < MaxKeys
    /\ \E key \in Keys : Pressed(key, handleKey(ui.m, key))

Without1(seq, i) == SubSeq(seq, 1, i - 1) \o SubSeq(seq, i + 1, Len(seq))

\* A load command runs: reader.Section
RunLoad ==
    /\ ui.pc = "running"
    /\ \E i \in 1..Len(ui.cmds) :
          /\ ui.cmds[i].op = "load"
          /\ disk' = EnsureMonthFile(disk, ui.cmds[i].date)
          /\ ui' = [ui EXCEPT !.cmds = Without1(@, i),
                              !.msgs = Append(@, loadedMsg(ui.cmds[i].date,
                                                  Section(disk, ui.cmds[i].date)))]
    /\ UNCHANGED <<last, w, fmt, rd>>

\* The Writer call of a command has made plan of the file
Wrote(i, cmd, loaded, plan) ==
    /\ disk' = IF plan.err = "ok" THEN writeLinesContent(plan.lines) ELSE loaded
    /\ last' = Call(writerOp(cmd.op), cmd.date, cmd.index + 1, cmd.entry,
                    plan.err, plan.ret, disk, last.nth + 1)
    /\ ui' = [ui EXCEPT !.cmds = Without1(@, i),
                        !.msgs = Append(@, Msg(cmd.op, cmd.date, cmd.index,
                                               IF cmd.op = "toggle" THEN plan.ret
                                               ELSE cmd.entry,
                                               NoSection, plan.err))]
    /\ UNCHANGED <<w, fmt, rd>>

\* A toggle, append, edit or delete command runs: the Writer call
RunWrite ==
    /\ ui.pc = "running"
    /\ \E i \in 1..Len(ui.cmds) :
          /\ ui.cmds[i].op # "load"
          /\ Wrote(i, ui.cmds[i], EnsureMonthFile(disk, ui.cmds[i].date),
                   planOn(writerOp(ui.cmds[i].op),
                          EnsureMonthFile(disk, ui.cmds[i].date),
                          ui.cmds[i].date, ui.cmds[i].index + 1, ui.cmds[i].entry))

\* A command fails with an I/O error
RunFails ==
    /\ ui.pc = "running"
    /\ \E i \in 1..Len(ui.cmds) :
          /\ disk' \in loadFailure(disk, ui.cmds[i].date)
          /\ ui' = [ui EXCEPT !.cmds = Without1(@, i),
                              !.msgs = Append(@, Msg(ui.cmds[i].op, ui.cmds[i].date,
                                                     ui.cmds[i].index, ui.cmds[i].entry,
                                                     NoSection, "io"))]
    /\ UNCHANGED <<last, w, fmt, rd>>

\* Update has handled the first message of the queue
Delivered(r) ==
    /\ ui' = [ui EXCEPT !.m = r.m, !.msgs = Tail(@), !.cmds = started(@, r.cmd),
                        !.stale = /\ Head(ui.msgs).type = "load"
                                  /\ ~sameDay(ui.m.currentDate, Head(ui.msgs).date)]
    /\ UNCHANGED <<disk, last, w, fmt, rd>>

\* The message of a command reaches Update
Deliver ==
    /\ ui.pc = "running"
    /\ ui.msgs # <<>>
    /\ Delivered(handleResult(ui.m, Head(ui.msgs)))

NextUi == Press \/ RunLoad \/ RunWrite \/ RunFails \/ Deliver

\* The TUI from start: keys, commands and their messages in any order
SpecUi == InitUi /\ [][NextUi]_vars

\* The keys that navigate, reload, toggle, add an entry and delete one
LoadKeys == {"left", "right", "r", "x", "a", "d", "y", "enter"}

\* The user presses one of these keys
PressLoadKey ==
    /\ ui.pc = "running"
    /\ ui.keys < MaxKeys
    /\ \E key \in LoadKeys : Pressed(key, handleKey(ui.m, key))

NextLoads == PressLoadKey \/ RunLoad \/ RunWrite \/ RunFails \/ Deliver

\* The TUI under these keys when the runtime runs every command it was
\* handed and hands every message to Update
FairUi ==
    /\ InitUi
    /\ [][NextLoads]_vars
    /\ WF_vars(RunFails \/ RunLoad \/ RunWrite)
    /\ WF_vars(Deliver)

\* ------------------------------------------------------------------------
\* Calls of several processes on one month file
\* ------------------------------------------------------------------------

\* The month files two calls meet on
RaceFiles == {Missing, <<LineH1, LineEntry, LineBlank>>}

InitRace ==
    /\ disk \in RaceFiles
    /\ last = NoCall
    /\ w = [p \in Procs |-> Idle]
    /\ ui = NoUi
    /\ fmt = NoFormat
    /\ rd = NoRead

\* Reader.Section(date) of a third process, at any point of the two calls
RaceSection ==
    /\ rd.pc = "none"
    /\ \E d \in Dates : SectionReturns(Time(d, 0), Section(disk, d))

NextRace ==
    \/ \E p \in Procs : BeginAppend(p)
    \/ \E p \in Procs : BeginToggle(p)
    \/ \E p \in Procs : BeginEdit(p)
    \/ \E p \in Procs : BeginDelete(p)
    \/ \E p \in Procs : CreateTemp(p)
    \/ \E p \in Procs : WriteString(p)
    \/ \E p \in Procs : Sync(p)
    \/ \E p \in Procs : Close(p)
    \/ \E p \in Procs : Chmod(p)
    \/ \E p \in Procs : Rename(p)
    \/ \E p \in Procs : StepFails(p)
    \/ RaceSection

\* Two Writer calls of two processes on one month file, their steps
\* interleaved, and a Reader.Section beside them
SpecRace == InitRace /\ [][NextRace]_vars

\* ------------------------------------------------------------------------
\* Parser calls
\* ------------------------------------------------------------------------

\* Most calls of NextSection made after the first that returns no section
MaxEofCalls == 1

LineBadEntry == <<"-", " ", "[", " ", "]", " ", "a">>

LineH3 == <<"#", "#", "#", " ", "N", "o", "t", "e", "s">>

\* The lines of the text the Parser reads
ParsePool ==
    {LineBlank, LineNotes, LineH3, LineH1, LineH2, LineEntry,
     LineBadEntry, LineLong}

\* A Parser, the text of its reader and what its NextSection calls returned
Parsing(parser, text) ==
    [pc |-> "parser", op |-> "NextSection", parser |-> parser, text |-> text,
     returns |-> <<>>]

\* The number of returns without a section
RECURSIVE Ends(_)
Ends(returns) ==
    IF returns = <<>> THEN 0
    ELSE (IF Head(returns).eof \/ Head(returns).err THEN 1 ELSE 0) + Ends(Tail(returns))

Returned(res) ==
    /\ rd' = [rd EXCEPT !.parser = res.parser,
                        !.returns = Append(rd.returns,
                            [err |-> res.err, eof |-> res.eof, section |-> res.section])]
    /\ UNCHANGED <<disk, last, w, fmt, ui>>

\* One call of NextSection on a Parser built on a reader
NextSectionCall ==
    /\ rd.pc = "parser"
    /\ rd.parser.r
    /\ Ends(rd.returns) <= MaxEofCalls
    /\ Returned(NextSection(rd.parser))

\* One call of NextSection on a Parser built on a nil reader
NextSectionOnNil ==
    /\ rd.pc = "parser"
    /\ ~rd.parser.r
    /\ Ends(rd.returns) <= MaxEofCalls
    /\ Returned(NextSection(rd.parser))

InitParser ==
    /\ disk = Missing
    /\ last = NoCall
    /\ w = [p \in Procs |-> Idle]
    /\ ui = NoUi
    /\ fmt = NoFormat
    /\ rd \in {Parsing(NewParser(TRUE, text), text) : text \in FilesOver(ParsePool)}
              \cup {Parsing(NewParser(FALSE, <<>>), <<>>)}

NextParser ==
    \/ NextSectionCall
    \/ NextSectionOnNil

\* A Parser on any text of the pool or on a nil reader, and its NextSection
\* calls one after another
SpecParser == InitParser /\ [][NextParser]_vars

\* ------------------------------------------------------------------------
\* Properties
\* ------------------------------------------------------------------------

\* The lines of a text file: its segments, without the empty one that
\* follows a final newline
TextLines(content) ==
    IF content = Missing THEN <<>>
    ELSE IF content[Len(content)] = <<>> THEN SubSeq(content, 1, Len(content) - 1)
    ELSE content

\* after is before with at most one line replaced
ReplacedAt(before, after) ==
    /\ Len(after) = Len(before)
    /\ \E k \in 1..Len(before) :
          \A j \in 1..Len(before) : j # k => after[j] = before[j]

\* after is before with exactly one line removed
RemovedAt(before, after) ==
    \E k \in 1..Len(before) :
        after = SubSeq(before, 1, k - 1) \o SubSeq(before, k + 1, Len(before))

\* after is before with the block of lines inserted at one place
InsertedAt(before, after, block) ==
    \E k \in 0..Len(before) :
        after = SubSeq(before, 1, k) \o block \o SubSeq(before, k + 1, Len(before))

\* after is before with the entry line added, alone or under a new heading
\* with or without a blank line before it
AddedTo(before, after, heading, line) ==
    \/ InsertedAt(before, after, <<line>>)
    \/ InsertedAt(before, after, <<heading, line>>)
    \/ InsertedAt(before, after, <<LineBlank, heading, line>>)

\* The lines of the month file when the last call was made (once the file
\* exists with its month header) and now
LinesBefore == TextLines(EnsureMonthFile(last.pre, last.date))

LinesAfter == TextLines(disk)

\* The entries Reader.Section returns for the date of the last call, on the
\* content the call found and on the content now
EntriesBefore == Section(last.pre, last.date).section.Entries

EntriesAfter == Section(disk, last.date).section.Entries

Succeeded(op) == last.nth >= 1 /\ last.op = op /\ last.err = "ok"

\* C1: a successful Append, Toggle, Edit or Delete changes the month file
\* only at its target: Toggle and Edit replace one line, Delete removes one
\* line, Append adds the entry line (with the heading and a blank separator
\* when the section is new); every other line is as before, in the same
\* order.
FrameEffect ==
    /\ Succeeded("Toggle") => ReplacedAt(LinesBefore, LinesAfter)
    /\ Succeeded("Edit") => ReplacedAt(LinesBefore, LinesAfter)
    /\ Succeeded("Delete") => RemovedAt(LinesBefore, LinesAfter)
    /\ Succeeded("Append") =>
          AddedTo(LinesBefore, LinesAfter, dateHeading(last.date),
                  formatEntry(normalizeEntryTime(last.date, last.entry)))

\* The month file holds what writeLines found or what it was asked to write
WholeFile(p) ==
    /\ disk \in {w[p].loaded, writeLinesContent(w[p].lines)}
    /\ w[p].pre \notin {Missing, EmptyContent} => w[p].loaded = w[p].pre

\* Among the steps of writeLines only the rename changes the month file, and
\* it puts the complete new content there
OnlyRename(p) ==
    (w[p].pc \in WriteSteps /\ disk' # disk) =>
        /\ w[p].pc = "rename"
        /\ disk' = writeLinesContent(w[p].lines)

RoundTrip ==
    fmt.pc = "parsed" =>
        /\ fmt.parsed.ok
        /\ fmt.parsed.entry.Status = fmt.entry.Status
        /\ fmt.parsed.entry.Hour = fmt.entry.Hour
        /\ fmt.parsed.entry.Min = fmt.entry.Min
        /\ fmt.parsed.entry.Text = fmt.entry.Text
        /\ fmt.parsed.entry.Tags = fmt.entry.Tags

\* C4: after an Append the section re-read with Reader.Section has the
\* entries that were there, in their order, followed by the appended entry.
AppendOrder ==
    Succeeded("Append") =>
        /\ Section(disk, last.date).found
        /\ EntriesAfter =
              Append(EntriesBefore, normalizeEntryTime(last.date, last.entry))

\* C5: for a section with K entries, Toggle, Edit and Delete with index <= 0
\* or index > K fail with ErrInvalidIndex, and with an index in 1..K succeed.
IndexBounds ==
    (/\ last.op \in {"Toggle", "Edit", "Delete"}
     /\ Section(last.pre, last.date).found) =>
        IF last.index \in 1..Len(EntriesBefore)
        THEN last.err = "ok"
        ELSE last.err = "ErrInvalidIndex"

\* C6: Toggle, Edit and Delete on a date that has no section in the month
\* file fail with ErrSectionNotFound for every index, never with
\* ErrInvalidIndex, and do not create the section.
SectionNotFound ==
    (/\ last.op \in {"Toggle", "Edit", "Delete"}
     /\ ~Section(last.pre, last.date).found) =>
        /\ last.err = "ErrSectionNotFound"
        /\ ~Section(disk, last.date).found
        /\ disk = EnsureMonthFile(last.pre, last.date)

\* A Toggle of index 1 on a date without a section, in a file that has a
\* section with an entry for the other date
ToggleWithoutSection ==
    /\ last.op = "Toggle" /\ last.index = 1 /\ last.date = D1
    /\ last.err = "ErrSectionNotFound"
    /\ Section(last.pre, D2).found
    /\ Len(Section(last.pre, D2).section.Entries) >= 1

\* C7: a successful Toggle(date, i) flips entry i, returns it with the new
\* status and the same time, text and tags, and rewrites only that line, so
\* that Reader.Section(date) then returns the returned entry at position i.
ToggleFlips ==
    Succeeded("Toggle") =>
        /\ last.index \in 1..Len(EntriesBefore)
        /\ last.ret.Status # EntriesBefore[last.index].Status
        /\ last.ret = [EntriesBefore[last.index] EXCEPT !.Status = last.ret.Status]
        /\ ReplacedAt(LinesBefore, LinesAfter)
        /\ last.index \in 1..Len(EntriesAfter)
        /\ EntriesAfter[last.index] = last.ret

\* C8: toggling the same index of the same date twice in a row returns the
\* entry to its original status and leaves the month file byte-identical to
\* what it was before the two toggles.
ToggleTwice ==
    [][last'.nth = 2 =>
          /\ last'.err = "ok"
          /\ last'.ret.Status # last.ret.Status
          /\ disk' = last.pre]_vars

\* The entries with the one at position i left out
Without(entries, i) == SubSeq(entries, 1, i - 1) \o SubSeq(entries, i + 1, Len(entries))

\* C9: after a successful Edit(date, i, u) the section has as many entries
\* as before, the entry re-read at position i is u with its time of day on
\* date, and every other entry is unchanged.
EditReplaces ==
    Succeeded("Edit") =>
        /\ last.index \in 1..Len(EntriesBefore)
        /\ EntriesAfter =
              [EntriesBefore EXCEPT
                  ![last.index] = normalizeEntryTime(last.date, last.entry)]

\* C10: a successful Delete(date, i) returns the entry that was at position
\* i, removes exactly that entry's line, and the section re-read has one
\* entry fewer, the others in their previous order.
DeleteRemoves ==
    Succeeded("Delete") =>
        /\ last.index \in 1..Len(EntriesBefore)
        /\ last.ret = EntriesBefore[last.index]
        /\ RemovedAt(LinesBefore, LinesAfter)
        /\ Section(disk, last.date).found
        /\ EntriesAfter = Without(EntriesBefore, last.index)

\* The heading lines of a text, in file order: the lines the Parser takes
\* for the heading of a dated section
headingOf(line, h) == IF h.ok THEN <<line>> ELSE <<>>

RECURSIVE headingLines(_)
headingLines(toks) ==
    IF toks = <<>> THEN <<>>
    ELSE headingOf(Head(toks), parseSectionHeading(TrimSpace(Head(toks))))
             \o headingLines(Tail(toks))

HeadingsOf(content) == headingLines(TextLines(content))

\* The dates of D1's month for which a call may be made or a section read
SectionDates == {D1, D2}

\* Reader.Section returned ErrSectionNotFound
NotFound(res) == ~res.found /\ ~res.err

\* C11: no call removes or alters a heading line. Every step of a Writer
\* call leaves the heading lines of the month file as they were, in the same
\* order, or adds the heading of the call's date after them; and a date for
\* which Reader.Section returned a section never gets ErrSectionNotFound
\* after the call, so that a Delete of the only entry of a section leaves a
\* section without entries.
HeadingsStay ==
    [][/\ HeadingsOf(disk') \in
             {HeadingsOf(disk), Append(HeadingsOf(disk), dateHeading(last'.date))}
       /\ \A d \in SectionDates :
             Section(disk, d).found => ~NotFound(Section(disk', d))]_vars

\* A Delete of the only entry of a section, made after an earlier call, has
\* left the section in place without entries
DeletedOnlyEntry ==
    /\ last.nth >= 2
    /\ Succeeded("Delete")
    /\ Len(EntriesBefore) = 1
    /\ Section(disk, last.date).found
    /\ EntriesAfter = <<>>

\* The blank line Append puts before a new heading
Separator(before) ==
    IF TrimSpace(before[Len(before)]) # <<>> THEN <<LineBlank>> ELSE <<>>

\* An Append that succeeded for a date Reader.Section found no section of
AppendedNewSection == Succeeded("Append") /\ ~Section(last.pre, last.date).found

\* C12: Append for a date with no section adds, at the end of the file, the
\* heading line and then the entry line; it adds exactly one blank line
\* before them when the last line of the file is not blank and none when
\* the last line is blank already.
NewSectionAtEnd ==
    AppendedNewSection =>
        LinesAfter =
            LinesBefore \o Separator(LinesBefore)
                \o <<dateHeading(last.date),
                      formatEntry(normalizeEntryTime(last.date, last.entry))>>

\* An Append has put a new section after a last line that was not blank
AppendedAfterText ==
    /\ AppendedNewSection
    /\ last.pre # Missing
    /\ Separator(LinesBefore) = <<LineBlank>>
    /\ Len(LinesAfter) = Len(LinesBefore) + 3

\* The date of a heading line
HeadingDate(line) == parseSectionHeading(TrimSpace(line)).date

\* No two heading lines of the text carry the same date
OneSectionPerDate(content) ==
    \A i, j \in 1..Len(HeadingsOf(content)) :
        i # j => HeadingDate(HeadingsOf(content)[i]) # HeadingDate(HeadingsOf(content)[j])

\* C13: a month file in which the Parser recognises at most one section per
\* date still has at most one section per date after a Writer call; Append
\* to a date that has a section writes no second heading for it.
SectionsStayUnique ==
    (last.nth >= 1 /\ OneSectionPerDate(last.pre)) => OneSectionPerDate(disk)

\* C14: every line formatEntry produces is an entry line for the Parser, and
\* formatting the parsed entry gives the same line again, also for an entry
\* with empty text and no tags.
FormatAccepted ==
    /\ fmt.pc = "parsed" => fmt.parsed.ok
    /\ fmt.pc = "again" => fmt.again = fmt.line

\* The entries of the well-formed entry lines among lines, in their order
entryOf(parsed) == IF parsed.ok THEN <<parsed.entry>> ELSE <<>>

RECURSIVE entriesIn(_, _)
entriesIn(lines, date) ==
    IF lines = <<>> THEN <<>>
    ELSE entryOf(parseEntryLine(TrimSpace(Head(lines)), date))
             \o entriesIn(Tail(lines), date)

\* The positions of the dated headings among lines, and of those of a date
HeadingsAt(lines) ==
    {i \in 1..Len(lines) : parseSectionHeading(TrimSpace(lines[i])).ok}

MatchesOf(lines, date) == {i \in HeadingsAt(lines) : HeadingDate(lines[i]) = date}

Least(S) == CHOOSE i \in S : \A j \in S : i <= j

\* The position of the first dated heading after position i, or the
\* position after the last line
SectionEnd(lines, i) ==
    Least({j \in HeadingsAt(lines) : j > i} \cup {Len(lines) + 1})

\* The section of the heading at position i: its date and the entries of
\* the lines up to the next dated heading
SectionAt(lines, i) ==
    DateSection(HeadingDate(lines[i]),
                entriesIn(SubSeq(lines, i + 1, SectionEnd(lines, i) - 1),
                          HeadingDate(lines[i])))

\* Some line is too long for the Scanner
HasLongLine(lines) == \E i \in 1..Len(lines) : ByteLen(lines[i]) >= MaxScanTokenSize

\* The lines of the month file a Reader call found, once the file exists
\* with its month header
ReadLines == TextLines(EnsureMonthFile(rd.pre, rd.start.date))

SectionReturned == rd.pc = "returned" /\ rd.op = "Section"

BetweenReturned == rd.pc = "returned" /\ rd.op = "SectionsBetween"

\* The calendar days from the day of start through the day of end
DaysOfRange(start, end) ==
    {t.date : t \in {u \in ReadTimes :
                        /\ ~Before(Time(u.date, 0), Time(start.date, 0))
                        /\ ~After(Time(u.date, 0), Time(end.date, 0))}}

\* The dates of the sections of a list
DatesOf(sections) == {sections[i].Date : i \in 1..Len(sections)}

\* C16: SectionsBetween(start, end) that returns without error returns
\* nothing when end is before start, and otherwise a section for each
\* calendar day from the day of start through the day of end that has a
\* heading in the month file, and for no other day, whatever the times of
\* day of start and end.
EveryDayOfRange ==
    (BetweenReturned /\ rd.err = "ok") =>
        IF Before(rd.end, rd.start) THEN rd.sections = <<>>
        ELSE DatesOf(rd.sections) =
                 {d \in DaysOfRange(rd.start, rd.end) : MatchesOf(ReadLines, d) # {}}

\* C17: the sections of SectionsBetween are in strictly ascending order of
\* date, so no date comes twice, also when the headings of the month file
\* are not in date order or a date has two headings.
AscendingDates ==
    rd.op = "SectionsBetween" =>
        \A i, j \in 1..Len(rd.sections) :
            i < j => Before(Time(rd.sections[i].Date, 0), Time(rd.sections[j].Date, 0))

\* SectionsBetween has returned two sections from a file in which the
\* later date's heading comes first and the earlier date has two headings
TwoSectionsOutOfOrder ==
    /\ BetweenReturned
    /\ Len(rd.sections) = 2
    /\ Cardinality(MatchesOf(ReadLines, D1)) = 2
    /\ MatchesOf(ReadLines, D2) # {}
    /\ Least(MatchesOf(ReadLines, D2)) < Least(MatchesOf(ReadLines, D1))

\* The days from the day of start on, one after another, as many as n
RECURSIVE DaysFrom(_, _)
DaysFrom(date, n) ==
    IF n = 0 THEN <<>> ELSE <<date>> \o DaysFrom(NextDay(date), n - 1)

\* C18: when Section fails for a day of the range with an error other than
\* ErrSectionNotFound, SectionsBetween returns that error and no section,
\* and the day that failed is the last day it called Section for: it has
\* gone through the days from the day of start to that day and no further.
FailureAborts ==
    (BetweenReturned /\ rd.err # "ok") =>
        /\ rd.sections = <<>>
        /\ rd.err \in {"io", "bufio.ErrTooLong"}
        /\ rd.err = "bufio.ErrTooLong" => Section(disk, rd.current.date).err
        /\ rd.visited # <<>>
        /\ rd.visited = DaysFrom(rd.start.date, Len(rd.visited))
        /\ rd.visited[Len(rd.visited)] = rd.current.date

\* SectionsBetween has failed on the second day of a range of three days,
\* after Section had found a section for the first day
FailedAfterSection ==
    /\ BetweenReturned
    /\ rd.err = "io"
    /\ Len(rd.visited) = 2
    /\ MatchesOf(ReadLines, rd.visited[1]) # {}
    /\ rd.end.date = D3

\* The positions of the dated headings among lines, in ascending order
RECURSIVE positionsFrom(_, _)
positionsFrom(lines, i) ==
    IF i > Len(lines) THEN <<>>
    ELSE (IF parseSectionHeading(TrimSpace(lines[i])).ok THEN <<i>> ELSE <<>>)
             \o positionsFrom(lines, i + 1)

HeadingPositions(lines) == positionsFrom(lines, 1)

\* The lines of the text the Parser reads
ParseLines == TextLines(rd.text)

ParserAtWork == rd.pc = "parser"

\* No return so far is an error, and each section returned has the entries
\* of the lines under its heading; positions are those of the headings
NeverAnErrorOn(lines, positions) ==
    \A i \in 1..Len(rd.returns) :
        /\ ~rd.returns[i].err
        /\ ~rd.returns[i].eof =>
              /\ i <= Len(positions)
              /\ rd.returns[i].section.Entries = SectionAt(lines, positions[i]).Entries

\* C19: whatever the text (blank lines, headings without a date of any
\* level, malformed entry lines, entry lines before the first dated
\* heading), no call of NextSection returns an error other than end of
\* input, and the entries of the section a call returns are those of the
\* well-formed entry lines between its heading and the next dated heading,
\* in file order.
NeverAnError ==
    ParserAtWork => NeverAnErrorOn(ParseLines, HeadingPositions(ParseLines))

\* The returns so far against the headings at positions, one by one
OneSectionPerHeadingOn(lines, positions) ==
    \A i \in 1..Len(rd.returns) :
        /\ (~rd.returns[i].err /\ ~rd.returns[i].eof) =>
              /\ i <= Len(positions)
              /\ rd.returns[i].section.Date = HeadingDate(lines[positions[i]])
        /\ rd.returns[i].eof => i > Len(positions)
        /\ (i > 1 /\ rd.returns[i - 1].eof) => rd.returns[i].eof
        /\ rd.returns[i].err => HasLongLine(lines)
        /\ ~rd.parser.r => rd.returns[i].eof

WriterErrors == {"ErrSectionNotFound", "ErrInvalidIndex", "io"}

\* C21: when Append, Toggle, Edit or Delete returns an error
\* (ErrSectionNotFound, ErrInvalidIndex or an I/O failure at a step of
\* writeLines) on an existing non-empty month file, the file's content is
\* what it was before the call; when the call returns success the complete
\* content it wrote is in place.
AllOrNothing ==
    (w[1].pc = "returned" /\ last.nth >= 1) =>
        /\ last.err \in WriterErrors \cup {"ok"}
        /\ (last.err \in WriterErrors
                /\ last.pre \notin {Missing, EmptyContent}) =>
               disk = last.pre
        /\ last.err = "ok" =>
               disk = writeLinesContent(
                          planOn(last.op, EnsureMonthFile(last.pre, last.date),
                                 last.date, last.index, last.entry).lines)

\* A call whose plan changes the file failed at a step of writeLines, and
\* the file is as the call found it
FailedWhileWriting ==
    /\ w[1].pc = "returned"
    /\ last.err = "io"
    /\ w[1].lines # <<>>
    /\ writeLinesContent(w[1].lines) # last.pre
    /\ last.pre \notin {Missing, EmptyContent}
    /\ disk = last.pre

\* What the call of process p makes of the content it loaded, and the file
\* content that is
OwnPlan(p) ==
    planOn(w[p].op, w[p].loaded, w[p].date, w[p].index, w[p].entry)

OwnContent(p) == writeLinesContent(OwnPlan(p).lines)

ReturnedOk(p) == w[p].pc = "returned" /\ w[p].err = "ok"

\* C22: of two Writer calls interleaved on one month file, each returns
\* what the content it loaded itself decides (no conflict is detected or
\* reported), and when both return success the file holds the content of
\* one of them alone, worked out from what that call loaded: the last
\* rename wins and the other call's change is not in it.
LastRenameWins ==
    /\ \A p \in Procs :
          w[p].pc = "returned" =>
              \/ w[p].err = "io"
              \/ w[p].loaded # Missing /\ w[p].err = OwnPlan(p).err
    /\ (\A p \in Procs : ReturnedOk(p)) =>
          \E p \in Procs : disk = OwnContent(p)

\* Both calls loaded the same content, both changed it differently, both
\* returned success, and the file holds the second call's content only
LostUpdate ==
    /\ ReturnedOk(1) /\ ReturnedOk(2)
    /\ w[1].loaded = w[2].loaded
    /\ w[1].op = "Append" /\ w[2].op = "Toggle"
    /\ OwnContent(1) # OwnContent(2)
    /\ OwnContent(1) # w[1].loaded
    /\ disk = OwnContent(2)
    /\ Len(Section(disk, w[1].date).section.Entries)
           < Len(Section(OwnContent(1), w[1].date).section.Entries)

\* The contents of the month file that no rewrite made
UnwrittenContents ==
    UNION {{f} \cup loadFailure(f, d) : f \in RaceFiles, d \in Dates}

\* The complete contents the calls that returned success have put in place
RenamedContents == {writeLinesContent(w[p].lines) : p \in {q \in Procs : ReturnedOk(q)}}

\* C23: what a Reader.Section call, or the read step of a Writer call, finds
\* in the month file while other Writer calls rewrite it is a complete
\* content: one that no rewrite has touched, or the whole content a
\* completed rename has put in place, never a part of one.
ReadsSeeWholeFile ==
    /\ rd.pc = "returned" => rd.pre \in UnwrittenContents \cup RenamedContents
    /\ \A p \in Procs :
          w[p].pc # "idle" => w[p].pre \in UnwrittenContents \cup RenamedContents

\* Process 2 loaded the file before process 1 renamed and is still writing;
\* Section has read what process 1 put in place, and finds its entry
ReadBesideRewrite ==
    /\ ReturnedOk(1)
    /\ w[1].op = "Append"
    /\ w[2].pc = "rename"
    /\ w[2].loaded = w[1].loaded
    /\ rd.pc = "returned"
    /\ rd.pre = OwnContent(1)
    /\ rd.pre # w[1].loaded
    /\ Len(rd.section.Entries) = 2

\* Every entry of the sequence has the date
AllOfDate(entries, date) ==
    \A k \in 1..Len(entries) : entries[k].Date = date

\* One of the entries has the date and the hour and minute of entry
HoldsTimeOf(entries, date, entry) ==
    \E k \in 1..Len(entries) :
        /\ entries[k].Date = date
        /\ entries[k].Hour = entry.Hour
        /\ entries[k].Min = entry.Min

\* C24: every entry Reader.Section(d) returns, and the entry Toggle(d, i) or
\* Delete(d, i) returns, has the date d; after Append(d, e) or Edit(d, i, e)
\* with e on whatever date, the section read back has an entry with date d
\* and e's hour and minute.
DatesOfSection ==
    /\ \A d \in SectionDates : AllOfDate(Section(disk, d).section.Entries, d)
    /\ (Succeeded("Toggle") \/ Succeeded("Delete")) => last.ret.Date = last.date
    /\ (Succeeded("Append") \/ Succeeded("Edit")) =>
           HoldsTimeOf(EntriesAfter, last.date, last.entry)

\* C25: EnsureMonthFile gives a missing month file the month header and
\* nothing else, and leaves every existing file as it is, however often it
\* is called.
EnsureNeverAlters ==
    Succeeded("EnsureMonthFile") =>
        IF last.pre = Missing THEN disk = monthHeader(last.date)
        ELSE disk = last.pre

\* C25, amended: EnsureMonthFile gives a month file that is missing or
\* exists with size 0 the month header and nothing else, and leaves every
\* existing file that is not empty as it is; a call after a successful call
\* changes nothing.
EnsureKeepsContent ==
    /\ [](Succeeded("EnsureMonthFile") =>
             IF last.pre \in {Missing, EmptyContent}
             THEN disk = monthHeader(last.date)
             ELSE disk = last.pre)
    /\ [][(Succeeded("EnsureMonthFile") /\ last'.nth = last.nth + 1
              /\ last'.err = "ok") => disk' = disk]_vars

\* A failed call created the file and left it empty, and the next call
\* wrote the header into it
HeaderIntoEmptyFile ==
    /\ Succeeded("EnsureMonthFile")
    /\ last.nth = 2
    /\ last.pre = EmptyContent
    /\ disk = monthHeader(last.date)

\* The entry with only the fields changed that the command line supplies
Supplied(entry, textArgs, timeFlag, statusFlag) ==
    [Status |-> IF statusFlag = <<>> THEN entry.Status
                ELSE parseStatusFlag(statusFlag, entry.Status).status,
     Date |-> entry.Date,
     Hour |-> IF timeFlag = <<>> THEN entry.Hour ELSE resolveTime(timeFlag).hour,
     Min |-> IF timeFlag = <<>> THEN entry.Min ELSE resolveTime(timeFlag).min,
     Text |-> IF textArgs = <<>> THEN entry.Text ELSE parseTextAndTags(textArgs).text,
     Tags |-> IF textArgs = <<>> THEN entry.Tags ELSE parseTextAndTags(textArgs).tags]

\* after is before with the entry at index changed in the supplied fields
EditedIn(before, after, index, textArgs, timeFlag, statusFlag) ==
    /\ Len(after) = Len(before)
    /\ index \in 1..Len(before)
    /\ \A k \in 1..Len(before) :
          after[k] = IF k = index
                     THEN Supplied(before[k], textArgs, timeFlag, statusFlag)
                     ELSE before[k]

\* C26: after a successful edit command on entry i the entries of the
\* section are those from before, with entry i changed only in the fields
\* supplied (time with --time, status with --status, text and tags with
\* positional text); the month file differs from the one before in the line
\* of entry i alone.
EditChangesSupplied ==
    Succeeded("edit") =>
        /\ EditedIn(EntriesBefore, EntriesAfter, last.index, last.text,
                    last.time, last.status)
        /\ ReplacedAt(LinesBefore, LinesAfter)

\* The commands of the kind among those running
RECURSIVE CmdsOf(_, _)
CmdsOf(cmds, op) ==
    IF cmds = <<>> THEN <<>>
    ELSE (IF Head(cmds).op = op THEN <<Head(cmds)>> ELSE <<>>) \o CmdsOf(Tail(cmds), op)

\* This step is Update handling the key
KeyStep(key) == Pressed(key, handleKey(ui.m, key))

\* This step starts a command of the kind
Starts(op) == Len(CmdsOf(ui'.cmds, op)) > Len(CmdsOf(ui.cmds, op))

\* The two are one entry, toggled or not
SameButStatus(a, b) == [a EXCEPT !.Status = StatusTodo] = [b EXCEPT !.Status = StatusTodo]

\* C27: the TUI starts a delete command only when y or Y is pressed in
\* confirm-delete mode; n, N or Esc in that mode leads to normal mode and
\* starts no command; and the entry a successful Writer.Delete removes is
\* the entry that was under the cursor when d opened the dialog.
DeleteAsConfirmed ==
    /\ [][Starts("delete") =>
             /\ ui.m.mode = "confirmDelete"
             /\ KeyStep("y") \/ KeyStep("Y")]_vars
    /\ [][(ui.m.mode = "confirmDelete"
               /\ (KeyStep("n") \/ KeyStep("N") \/ KeyStep("esc"))) =>
             /\ ui'.m.mode = "normal"
             /\ ui'.cmds = ui.cmds]_vars
    /\ [](Succeeded("Delete") => SameButStatus(last.ret, last.entry))

\* C28: Esc in any dialog (add todo, add done, edit, edit time, edit
\* status, confirm delete) leaves the Model in normal mode with an empty
\* input buffer and editingIndex = -1, starts no command, and leaves the
\* displayed section, the date and the month file as they are.
EscCancels ==
    [][(ui.m.mode # "normal" /\ KeyStep("esc")) =>
          /\ ui'.m.mode = "normal"
          /\ ui'.m.inputBuffer = <<>>
          /\ ui'.m.editingIndex = -1
          /\ ui'.cmds = ui.cmds
          /\ ui'.msgs = ui.msgs
          /\ ui'.m.section = ui.m.section
          /\ ui'.m.selected = ui.m.selected
          /\ ui'.m.currentDate = ui.m.currentDate
          /\ disk' = disk
          /\ last' = last]_vars

\* Esc has closed a dialog that was opened with the cursor on the second
\* entry: the third key was Esc and it changed the Model
EscClosedEdit ==
    /\ ui.pc = "running"
    /\ ui.keys = 3
    /\ ui.key = "esc"
    /\ ui.m.mode = "normal"
    /\ ui.m.selected = 1
    /\ ui.m.inputBuffer = <<>>
    /\ ui.m.editingIndex = -1
    /\ Len(ui.m.section.Entries) = 2
    /\ ui.cmds = <<>>

\* What loadSection makes of the month file the last call found, and what
\* Reader.Section returns for the same file and date
WriterView == loadSection(splitLines(EnsureMonthFile(last.pre, last.date)), last.date)

ReaderView == Section(last.pre, last.date)

ViewsAgree(wv, rv) ==
    /\ wv.found <=> rv.found
    /\ wv.found => wv.section.Entries = rv.section.Entries
    /\ (last.err = "ErrSectionNotFound") <=> ~rv.found
    /\ last.err = "ok" =>
          /\ last.index <= Len(rv.section.Entries)
          /\ wv.section.Entries[last.index] = rv.section.Entries[last.index]
          /\ last.op = "Delete" => last.ret = rv.section.Entries[last.index]
          /\ last.op = "Toggle" => last.ret = toggled(rv.section.Entries[last.index])

\* C29: for every file content and date the Writer finds a section exactly
\* when Reader.Section finds one, and the entry that Toggle, Edit or Delete
\* addresses with index k is the k-th entry of the section Reader.Section
\* returns, also in files with "## " lines that are no dated headings and
\* with headings of irregular spacing.
WriterAgreesWithReader ==
    (last.nth = 1 /\ last.op \in {"Toggle", "Edit", "Delete"}) =>
        ViewsAgree(WriterView, ReaderView)

\* The section body as the claim has it: the lines after the heading at
\* 0-based index start, up to the next dated heading or the end of the file
BodyEnd(lines, start) == SectionEnd(lines, start + 1) - 1

BodyAsRead(wv, lines) ==
    wv.found =>
        /\ wv.end = BodyEnd(lines, wv.start)
        /\ wv.section.Entries =
              entriesIn(SubSeq(lines, wv.start + 2, BodyEnd(lines, wv.start)), last.date)
        /\ Succeeded("Append") =>
              disk = writeLinesContent(
                         insertLine(lines, BodyEnd(lines, wv.start),
                                    formatEntry(normalizeEntryTime(last.date, last.entry))))

\* C30: the section body in which the Writer counts entries, and at whose
\* end Append inserts, runs from the line after the heading of the date to
\* just before the next dated heading or the end of the file; a "## " line
\* that is no dated heading does not end it.
BodyUpToDatedHeading ==
    last.nth = 1 =>
        BodyAsRead(WriterView, splitLines(EnsureMonthFile(last.pre, last.date)))

\* A line against the pattern of a heading: read is what the Parser makes of
\* the trimmed line, and the Writer takes the line for the heading of a date
\* when the trimmed line is the date's dateHeading
HeadingAsPattern(line, read) ==
    /\ read.ok => line = dateHeading(read.date)
    /\ \A d \in SectionDates :
          /\ TrimSpace(line) = dateHeading(d) => line = dateHeading(d)
          /\ line = dateHeading(d) =>
                read.ok /\ read.date = d /\ TrimSpace(line) = dateHeading(d)

PatternOn(lines) ==
    \A i \in 1..Len(lines) :
        HeadingAsPattern(lines[i], parseSectionHeading(TrimSpace(lines[i])))

\* C31: a line is the heading of a section, for the Parser and for the
\* Writer alike, exactly when it is two hashes, one space and a valid
\* calendar date; a line with more spaces after the hashes, with whitespace
\* around it, or with an impossible date is no heading.
HeadingPattern == last.nth = 1 => PatternOn(LinesBefore)

\* The content ends with a line end
NewlineTerminated(content) == content # Missing /\ content[Len(content)] = <<>>

\* The number of empty lines at the end of lines
RECURSIVE TrailingBlanks(_)
TrailingBlanks(lines) ==
    IF lines = <<>> THEN 0
    ELSE IF lines[Len(lines)] # <<>> THEN 0
    ELSE 1 + TrailingBlanks(SubSeq(lines, 1, Len(lines) - 1))

JoinReproduces(content) ==
    NewlineTerminated(content) => writeLinesContent(splitLines(content)) = content

\* C32: reading and rewriting keeps the lines of the file: joining
\* splitLines(content) as writeLines does gives content again for every
\* content that ends with a line end, and a file that ends with blank lines
\* has as many of them after a Toggle, Edit or Delete as before.
RewriteKeepsLines ==
    last.nth = 1 =>
        /\ JoinReproduces(EnsureMonthFile(last.pre, last.date))
        /\ (/\ last.op \in {"Toggle", "Edit", "Delete"}
            /\ last.err = "ok"
            /\ TrailingBlanks(LinesBefore) >= 1) =>
               TrailingBlanks(LinesAfter) = TrailingBlanks(LinesBefore)

\* Update handles the result of a command of the given type
Delivers(type) ==
    /\ ui.pc = "running"
    /\ ui.msgs # <<>>
    /\ Head(ui.msgs).type = type
    /\ ui'.msgs = Tail(ui.msgs)

EntriesOfDate(section, date) ==
    \A i \in 1..Len(section.Entries) : section.Entries[i].Date = date

\* Every entry on display after the step is the entry that was on display
\* at its place before, but for its status
OnlyStatusChanged(before, after) ==
    /\ Len(after) = Len(before)
    /\ \A i \in 1..Len(after) : SameButStatus(after[i], before[i])

\* C33: every entry of the section on display belongs to the date on
\* display, and a toggle result that arrives after the user went to another
\* date, or after the section was reloaded with other contents, does not
\* put its entry over an entry of the section now on display.
ToggleResultInPlace ==
    /\ [](ui.pc = "running" => EntriesOfDate(ui.m.section, ui.m.currentDate))
    /\ [][Delivers("toggle") =>
             OnlyStatusChanged(ui.m.section.Entries, ui'.m.section.Entries)]_vars

\* The message at the head of the queue is the section of a date that is
\* not on display
StaleLoad ==
    /\ ui.msgs # <<>>
    /\ Head(ui.msgs).type = "load"
    /\ ~sameDay(ui.m.currentDate, Head(ui.msgs).date)

\* C34: a section-loaded result for a date other than the date on display
\* leaves the Model as it is (section, selection, loading flag and the
\* rest) and starts no command, in whatever order the results arrive.
StaleLoadIgnored ==
    [][(StaleLoad /\ Delivers("load")) =>
          /\ ui'.m = ui.m
          /\ ui'.cmds = ui.cmds
          /\ disk' = disk]_vars

\* Update has dropped a section loaded for 2025-11-04 while 2025-11-05 was
\* on display, its own section already loaded
DroppedStaleLoad ==
    /\ ui.pc = "running"
    /\ ui.stale
    /\ ui.m.currentDate = D2
    /\ ~ui.m.loading
    /\ Len(ui.m.section.Entries) = 1
    /\ ui.cmds = <<>>
    /\ ui.msgs = <<>>

\* C35: in every state of the TUI the selection is valid: selected >= 0,
\* selected < len(section.Entries) when the section on display has entries,
\* and selected = 0 when it has none, after any keys and results.
SelectionValid ==
    ui.pc = "running" =>
        /\ ui.m.selected >= 0
        /\ Len(ui.m.section.Entries) > 0 => ui.m.selected < Len(ui.m.section.Entries)
        /\ Len(ui.m.section.Entries) = 0 => ui.m.selected = 0

\* The second of two entries was selected and deleted; the section came
\* back from the reload with one entry and the selection is on it
SelectionAfterShrink ==
    /\ ui.pc = "running"
    /\ ui.keys = 3
    /\ ui.key = "y"
    /\ Succeeded("Delete")
    /\ last.index = 2
    /\ ~ui.m.loading
    /\ ui.cmds = <<>>
    /\ ui.msgs = <<>>
    /\ Len(ui.m.section.Entries) = 1
    /\ ui.m.selected = 0

\* C36: every Toggle, Edit or Delete that the TUI issues carries a 1-based
\* index between 1 and the number of entries of the section on display when
\* it is issued, also when a reload made that section shorter while a dialog
\* was open.
IssuedIndexInRange ==
    [][\A op \in {"toggle", "edit", "delete"} :
          Starts(op) =>
              ui'.cmds[Len(ui'.cmds)].index + 1 \in 1..Len(ui.m.section.Entries)]_vars

\* A delete dialog was opened on the first of two entries while the delete
\* of that entry was under way; the reload left one entry on display, and y
\* has issued the delete of index 1 of it
DeleteIssuedAfterShrink ==
    /\ ui.pc = "running"
    /\ ui.keys = 4
    /\ ui.key = "y"
    /\ Succeeded("Delete")
    /\ ui.msgs = <<>>
    /\ Len(ui.cmds) = 1
    /\ ui.cmds[1].op = "delete"
    /\ ui.cmds[1].index = 0
    /\ Len(ui.m.section.Entries) = 1
    /\ ui.cmds[1].entry # ui.m.section.Entries[1]

\* C37: whenever the TUI sets loading it issues a load for the date on
\* display, so while loading is set such a load is running or its message is
\* queued, and when every command delivers its result loading becomes false
\* again, whatever navigation, reloads and write results come in between.
LoadUnderWay ==
    \/ \E i \in 1..Len(ui.cmds) :
          ui.cmds[i].op = "load" /\ sameDay(ui.cmds[i].date, ui.m.currentDate)
    \/ \E i \in 1..Len(ui.msgs) :
          ui.msgs[i].type = "load" /\ sameDay(ui.msgs[i].date, ui.m.currentDate)

LoadingEnds ==
    /\ [](ui.m.loading => LoadUnderWay)
    /\ ui.m.loading ~> ~ui.m.loading

\* An entry was appended; the result set loading and started the reload,
\* and the section with the new entry selected has arrived
LoadedAfterAppend ==
    /\ ui.pc = "running"
    /\ ui.keys = 3
    /\ ui.key = "enter"
    /\ Succeeded("Append")
    /\ ~ui.m.loading
    /\ ui.cmds = <<>>
    /\ ui.msgs = <<>>
    /\ Len(ui.m.section.Entries) = 3
    /\ ui.m.selected = 2

\* C38: when creating, writing, syncing, closing or chmod-ing the temporary
\* file fails, or the rename fails, writeLines returns the error, the
\* temporary file it created is no longer in the directory and the month
\* file is as writeLines found it.
WriteLinesFailed ==
    /\ w[1].pc \in WriteSteps
    /\ w'[1].pc = "returned"
    /\ w'[1].err # "ok"

FailedWriteLeavesNothing ==
    [][WriteLinesFailed =>
          /\ last'.nth = last.nth + 1
          /\ last'.err = "io"
          /\ w'[1].temp = Missing
          /\ disk' = disk
          /\ disk' = w[1].loaded]_vars

\* The call found no month file, EnsureMonthFile created it, and a step of
\* writeLines failed: the month file holds its header alone and no
\* temporary file is left
FailedAfterEnsure ==
    /\ w[1].pc = "returned"
    /\ w[1].err = "io"
    /\ w[1].pre = Missing
    /\ w[1].lines # <<>>
    /\ w[1].temp = Missing
    /\ disk = EnsureMonthFile(Missing, w[1].date)
    /\ disk # writeLinesContent(w[1].lines)

\* C39: Reader.Section and Reader.SectionsBetween never change the content
\* of an existing month file that is not empty; their only effect on storage
\* is that a missing month file is created with its header.
ReaderOnlyCreates ==
    rd.pc # "none" =>
        \/ disk = rd.pre
        \/ rd.pre = Missing /\ disk = monthHeader(rd.start.date)

\* C39, amended: the calls leave an existing month file that is not empty
\* as it is; a month file that is missing or has size 0 holds the month
\* header after a call that got past EnsureMonthFile, and after a call that
\* failed there it is as before, created empty, or holds the header.
ReaderStorageEffect ==
    rd.pc # "none" =>
        /\ rd.pre \notin {Missing, EmptyContent} => disk = rd.pre
        /\ rd.pre = EmptyContent =>
               disk \in {EmptyContent, monthHeader(rd.start.date)}
        /\ rd.pre = Missing =>
               disk \in {Missing, EmptyContent, monthHeader(rd.start.date)}
        /\ (rd.pre \in {Missing, EmptyContent} /\ rd.visited # <<>>
                /\ rd.err # "io") =>
               disk = monthHeader(rd.start.date)

\* SectionsBetween has visited two days of a month whose file existed with
\* size 0: the file holds the month header
HeaderByRead ==
    /\ rd.pc = "returned"
    /\ rd.op = "SectionsBetween"
    /\ rd.err = "ok"
    /\ Len(rd.visited) = 2
    /\ rd.pre = EmptyContent
    /\ disk = monthHeader(rd.start.date)

=============================================================================
